---- MODULE Spec2Model ----
(***************************************************************************)
(* Training Log + Video Vault (src/app.js): the hierarchical base          *)
(* document, the overlay of local edits, the selection, the two            *)
(* localStorage slots and the handlers that read and write them.           *)
(*                                                                         *)
(* JavaScript values are tagged records (Str, Num, Arr, NULL, UNDEF, NaN)  *)
(* so that ===, String(), Number(), typeof and truthiness can be modelled  *)
(* as the language defines them.  JavaScript objects are records; a        *)
(* property that is absent is a field that is not in the record's DOMAIN.  *)
(***************************************************************************)
EXTENDS Integers, Sequences, FiniteSets, TLC

VARIABLES
  pc,        \* main(): "loading" | "ready" | "failed"
  baseData,  \* let baseData (NULL until fetchBaseData resolves)
  edits,     \* let edits: entry key -> patch object
  sel,       \* let sel: the current selection
  lsEdits,   \* localStorage[STORAGE_KEY]      (NULL when the item is absent)
  lsBase,    \* localStorage[STORAGE_BASE_KEY] (NULL when the item is absent)
  view,      \* which of overviewView / exerciseView / searchView is shown
  shown,     \* the videos array the Remove buttons of the video list close over
  full,      \* whether localStorage is out of quota (setItem throws)
  clock,     \* the wall clock read by nowIso()
  media,     \* the FileReader of Add local media: whether it is reading, and
             \* the selection at the click that started it (kept for the
             \* properties; the handler keeps the file only)
  lastOp     \* the handler that ran last and how it ended

vars == <<pc, baseData, edits, sel, lsEdits, lsBase, view, shown, full, clock, media, lastOp>>

-----------------------------------------------------------------------------
(* JavaScript values *)

Str(s) == [str |-> s]
Num(n) == [num |-> n]
Arr(a) == [arr |-> a]
NULL == [null |-> TRUE]
UNDEF == [undef |-> TRUE]
NaN == [nan |-> TRUE]

IsStr(v) == DOMAIN v = {"str"}
IsNum(v) == DOMAIN v = {"num"}
IsArr(v) == DOMAIN v = {"arr"}

Has(o, f) == f \in DOMAIN o

\* o.f : the property's value, undefined when the object has no such property
Get(o, f) == IF Has(o, f) THEN o[f] ELSE UNDEF

\* !!v
Truthy(v) ==
  IF IsStr(v) THEN v.str # ""
  ELSE IF IsNum(v) THEN v.num # 0
  ELSE IF IsArr(v) THEN TRUE
  ELSE FALSE

\* a || b
OrElse(a, b) == IF Truthy(a) THEN a ELSE b

Digits == "0123456789"

Char(s, i) == SubSeq(s, i, i)

IsDigit(c) == \E i \in 1..10 : Char(Digits, i) = c

DigitVal(c) == (CHOOSE i \in 1..10 : Char(Digits, i) = c) - 1

RECURSIVE NumToStr(_)
NumToStr(n) ==
  IF n < 0 THEN "-" \o NumToStr(0 - n)
  ELSE IF n < 10 THEN Char(Digits, n + 1)
  ELSE NumToStr(n \div 10) \o Char(Digits, (n % 10) + 1)

RECURSIVE DigitsToNum(_, _)
DigitsToNum(s, acc) ==
  IF s = "" THEN acc
  ELSE DigitsToNum(SubSeq(s, 2, Len(s)), acc * 10 + DigitVal(Char(s, 1)))

AllDigits(s) == \A i \in 1..Len(s) : IsDigit(Char(s, i))

\* String(v)
JSString(v) ==
  IF IsStr(v) THEN v.str
  ELSE IF IsNum(v) THEN NumToStr(v.num)
  ELSE IF v = NULL THEN "null"
  ELSE IF v = NaN THEN "NaN"
  ELSE "undefined"

\* Number(v): a decimal digit string is its value, the empty string and null
\* are 0, anything else that is not a number is NaN
JSNumber(v) ==
  IF IsNum(v) THEN v
  ELSE IF IsStr(v) THEN (IF AllDigits(v.str) THEN Num(DigitsToNum(v.str, 0)) ELSE NaN)
  ELSE IF v = NULL THEN Num(0)
  ELSE NaN

\* a === b on primitives (NaN is not equal to itself)
StrictEq(a, b) == a = b /\ a # NaN

\* one element of Array.prototype.join: null and undefined join as ""
JoinElem(v) == IF v = NULL \/ v = UNDEF THEN "" ELSE JSString(v)

\* the segments of s between occurrences of the one-character separator
RECURSIVE SplitFrom(_, _, _, _)
SplitFrom(s, sep, i, cur) ==
  IF i > Len(s) THEN <<cur>>
  ELSE IF Char(s, i) = sep THEN <<cur>> \o SplitFrom(s, sep, i + 1, "")
  ELSE SplitFrom(s, sep, i + 1, cur \o Char(s, i))

Split(s, sep) == SplitFrom(s, sep, 1, "")

\* the index of the first element of seq that satisfies P, or 0
FindIndex(seq, P(_)) ==
  IF \E i \in 1..Len(seq) : P(seq[i])
  THEN CHOOSE i \in 1..Len(seq) : P(seq[i]) /\ \A j \in 1..(i - 1) : ~P(seq[j])
  ELSE 0

RemoveAt(seq, i) == SubSeq(seq, 1, i - 1) \o SubSeq(seq, i + 1, Len(seq))

-----------------------------------------------------------------------------
(* Tiny helpers *)

UpperAlpha == "ABCDEFGHIJKLMNOPQRSTUVWXYZ"
LowerAlpha == "abcdefghijklmnopqrstuvwxyz"

LowerChar(c) ==
  IF \E i \in 1..26 : Char(UpperAlpha, i) = c
  THEN Char(LowerAlpha, CHOOSE i \in 1..26 : Char(UpperAlpha, i) = c)
  ELSE c

IsSlugChar(c) == IsDigit(c) \/ \E i \in 1..26 : Char(LowerAlpha, i) = c

RECURSIVE TrimLeft(_)
TrimLeft(s) == IF s # "" /\ Char(s, 1) = " " THEN TrimLeft(SubSeq(s, 2, Len(s))) ELSE s

RECURSIVE TrimRight(_)
TrimRight(s) ==
  IF s # "" /\ Char(s, Len(s)) = " " THEN TrimRight(SubSeq(s, 1, Len(s) - 1)) ELSE s

\* String.prototype.trim (of the blanks the inputs of the model contain)
Trim(s) == TrimRight(TrimLeft(s))

RECURSIVE MapLower(_)
MapLower(s) == IF s = "" THEN "" ELSE LowerChar(Char(s, 1)) \o MapLower(SubSeq(s, 2, Len(s)))

\* .replace(/['"]/g, "")
RECURSIVE DropQuotes(_)
DropQuotes(s) ==
  IF s = "" THEN ""
  ELSE IF Char(s, 1) = "'" \/ Char(s, 1) = "\"" THEN DropQuotes(SubSeq(s, 2, Len(s)))
  ELSE Char(s, 1) \o DropQuotes(SubSeq(s, 2, Len(s)))

\* .replace(/[^a-z0-9]+/g, "-"): inRun is TRUE inside a run already replaced
RECURSIVE DashRuns(_, _)
DashRuns(s, inRun) ==
  IF s = "" THEN ""
  ELSE IF IsSlugChar(Char(s, 1)) THEN Char(s, 1) \o DashRuns(SubSeq(s, 2, Len(s)), FALSE)
  ELSE IF inRun THEN DashRuns(SubSeq(s, 2, Len(s)), TRUE)
  ELSE "-" \o DashRuns(SubSeq(s, 2, Len(s)), TRUE)

\* .replace(/(^-|-$)/g, "")
StripDashes(s) ==
  LET a == IF s # "" /\ Char(s, 1) = "-" THEN SubSeq(s, 2, Len(s)) ELSE s
  IN IF a # "" /\ Char(a, Len(a)) = "-" THEN SubSeq(a, 1, Len(a) - 1) ELSE a

slugify(str) == StripDashes(DashRuns(DropQuotes(MapLower(Trim(str))), FALSE))

\* the timestamps new Date().toISOString() returns at clock = 1, 2, ...
IsoTimes == <<"2026-01-01T00:00:01.000Z", "2026-01-01T00:00:02.000Z",
              "2026-01-01T00:00:03.000Z", "2026-01-01T00:00:04.000Z">>

nowIso == IsoTimes[clock]

-----------------------------------------------------------------------------
(* Unique key for an entry *)

\* a variant that joins with the dash that slugs contain
entryKeyDashed(periodId, blockId, week, day, exerciseId) ==
  JoinElem(periodId) \o "-" \o JoinElem(blockId) \o "-" \o JoinElem(week)
    \o "-" \o JoinElem(day) \o "-" \o JoinElem(exerciseId)

entryKey(periodId, blockId, week, day, exerciseId) ==
  JoinElem(periodId) \o "|" \o JoinElem(blockId) \o "|" \o JoinElem(week)
    \o "|" \o JoinElem(day) \o "|" \o JoinElem(exerciseId)

(* Merge local edits into a live entry object.  videosOf records which     *)
(* array object entry.videos is: "base" when it is the exercise node's own *)
(* array, "fresh" when it was allocated for this entry.                    *)

\* a variant that takes every field from the patch, set or not
applyPatchToEntryWhole(entry, patch) ==
  IF patch = UNDEF \/ patch = NULL THEN entry
  ELSE [entry EXCEPT
         !.work = OrElse(Get(patch, "work"), Str("")),
         !.videos = IF IsArr(Get(patch, "videos")) THEN patch.videos ELSE Arr(<<>>),
         !.videosOf = "fresh",
         !.lifterComment = OrElse(Get(patch, "lifterComment"), Str("")),
         !.coachComment = OrElse(Get(patch, "coachComment"), Str("")),
         !.updatedAt = OrElse(Get(patch, "updatedAt"), NULL)]

\* a variant whose videos are the entry's followed by the patch's
applyPatchToEntryAppends(entry, patch) ==
  IF patch = UNDEF \/ patch = NULL THEN entry
  ELSE
    LET o1 == IF IsStr(Get(patch, "work")) THEN [entry EXCEPT !.work = patch.work] ELSE entry
        o2 == IF IsArr(Get(patch, "videos"))
              THEN [o1 EXCEPT !.videos = Arr(entry.videos.arr \o patch.videos.arr),
                              !.videosOf = "fresh"]
              ELSE o1
        o3 == IF IsStr(Get(patch, "lifterComment"))
              THEN [o2 EXCEPT !.lifterComment = patch.lifterComment] ELSE o2
        o4 == IF IsStr(Get(patch, "coachComment"))
              THEN [o3 EXCEPT !.coachComment = patch.coachComment] ELSE o3
        o5 == IF IsStr(Get(patch, "updatedAt"))
              THEN [o4 EXCEPT !.updatedAt = patch.updatedAt] ELSE o4
    IN o5

applyPatchToEntry(entry, patch) ==
  IF patch = UNDEF \/ patch = NULL THEN entry
  ELSE
    LET o1 == IF IsStr(Get(patch, "work")) THEN [entry EXCEPT !.work = patch.work] ELSE entry
        o2 == IF IsArr(Get(patch, "videos"))
              THEN [o1 EXCEPT !.videos = patch.videos, !.videosOf = "fresh"] ELSE o1
        o3 == IF IsStr(Get(patch, "lifterComment"))
              THEN [o2 EXCEPT !.lifterComment = patch.lifterComment] ELSE o2
        o4 == IF IsStr(Get(patch, "coachComment"))
              THEN [o3 EXCEPT !.coachComment = patch.coachComment] ELSE o3
        o5 == IF IsStr(Get(patch, "updatedAt"))
              THEN [o4 EXCEPT !.updatedAt = patch.updatedAt] ELSE o4
    IN o5

-----------------------------------------------------------------------------
(* Data navigation helpers: each returns the node found or UNDEF *)

Find(seq, P(_)) ==
  LET at(i) == IF i = 0 THEN UNDEF ELSE seq[i] IN at(FindIndex(seq, P))

getPeriod(doc, periodId) ==
  LET P(p) == StrictEq(p.id, periodId) IN Find(doc.periods, P)

getBlock(period, blockId) ==
  LET P(b) == JSString(b.id) = JSString(blockId) IN Find(period.blocks, P)

getWeek(block, week) ==
  LET P(w) == StrictEq(JSNumber(w.week), JSNumber(week)) IN Find(block.weeks, P)

getDay(weekObj, day) ==
  LET P(d) == StrictEq(JSNumber(d.day), JSNumber(day)) IN Find(weekObj.days, P)

getExercise(dayObj, exerciseId) ==
  LET P(e) == StrictEq(e.id, exerciseId) IN Find(dayObj.exercises, P)

\* the entry object getPatchedEntry builds from the nodes of the chain
EntryOf(periodId, period, block, weekObj, dayObj, ex) ==
  [ periodId |-> periodId,
    periodName |-> period.name,
    blockId |-> block.id,
    week |-> weekObj.week,
    day |-> dayObj.day,
    exerciseId |-> ex.id,
    exerciseName |-> ex.name,
    work |-> OrElse(Get(ex, "work"), Str("")),
    videos |-> IF IsArr(Get(ex, "videos")) THEN ex.videos ELSE Arr(<<>>),
    videosOf |-> IF IsArr(Get(ex, "videos")) THEN "base" ELSE "fresh",
    lifterComment |-> OrElse(Get(ex, "lifterComment"), Str("")),
    coachComment |-> OrElse(Get(ex, "coachComment"), Str("")),
    updatedAt |-> OrElse(Get(ex, "updatedAt"), NULL) ]

\* a variant that answers from the overlay when the day has no such exercise
getPatchedEntryOrPatch(doc, editsMap, periodId, blockId, week, day, exerciseId) ==
  LET withEx(period, block, weekObj, dayObj, ex, patch) ==
        IF ex = UNDEF /\ patch = UNDEF THEN NULL
        ELSE IF ex = UNDEF
        THEN applyPatchToEntry(
               [ periodId |-> periodId, periodName |-> period.name, blockId |-> block.id,
                 week |-> weekObj.week, day |-> dayObj.day, exerciseId |-> exerciseId,
                 exerciseName |-> Str(""), work |-> Str(""), videos |-> Arr(<<>>),
                 videosOf |-> "fresh", lifterComment |-> Str(""), coachComment |-> Str(""),
                 updatedAt |-> NULL ],
               patch)
        ELSE applyPatchToEntry(EntryOf(periodId, period, block, weekObj, dayObj, ex), patch)
      withDay(period, block, weekObj, dayObj) ==
        IF dayObj = UNDEF THEN NULL
        ELSE withEx(period, block, weekObj, dayObj, getExercise(dayObj, exerciseId),
                    Get(editsMap, entryKey(periodId, blockId, week, day, exerciseId)))
      withWeek(period, block, weekObj) ==
        IF weekObj = UNDEF THEN NULL
        ELSE withDay(period, block, weekObj, getDay(weekObj, day))
      withBlock(period, block) ==
        IF block = UNDEF THEN NULL ELSE withWeek(period, block, getWeek(block, week))
      withPeriod(period) ==
        IF period = UNDEF THEN NULL ELSE withBlock(period, getBlock(period, blockId))
  IN withPeriod(getPeriod(doc, periodId))

\* what a call answers with when it threw: edits[key] with edits null,
\* baseData.periods.find with no document or with a periods that has no find
TypeError == [threw |-> "TypeError"]

\* Build a fully patched entry for display; NULL when the chain fails.  Each
\* step of the chain hands the nodes found so far to the next one.
getPatchedEntry(doc, editsMap, periodId, blockId, week, day, exerciseId) ==
  LET withEx(period, block, weekObj, dayObj, ex) ==
        IF ex = UNDEF THEN NULL
        ELSE IF editsMap = NULL THEN TypeError
        ELSE applyPatchToEntry(
               EntryOf(periodId, period, block, weekObj, dayObj, ex),
               Get(editsMap, entryKey(periodId, blockId, week, day, exerciseId)))
      withDay(period, block, weekObj, dayObj) ==
        IF dayObj = UNDEF THEN NULL
        ELSE withEx(period, block, weekObj, dayObj, getExercise(dayObj, exerciseId))
      withWeek(period, block, weekObj) ==
        IF weekObj = UNDEF THEN NULL
        ELSE withDay(period, block, weekObj, getDay(weekObj, day))
      withBlock(period, block) ==
        IF block = UNDEF THEN NULL ELSE withWeek(period, block, getWeek(block, week))
      withPeriod(period) ==
        IF period = UNDEF THEN NULL ELSE withBlock(period, getBlock(period, blockId))
  IN IF ~Has(doc, "periods") THEN TypeError
     ELSE withPeriod(getPeriod(doc, periodId))

-----------------------------------------------------------------------------
(* localStorage: an item holds text.  The text JSON.stringify writes is   *)
(* represented by the value JSON.parse reads back from it: the documents   *)
(* and patches written here are objects and arrays of strings, finite      *)
(* numbers and null, which the round trip returns as equal values.  Text   *)
(* that is not JSON has no json field.                                     *)

stringify(v) == [json |-> v]

safeJsonParse(text, fallback) == IF Has(text, "json") THEN text.json ELSE fallback

EmptyObj == [k \in {} |-> TRUE]

\* loadEdits(): safeJsonParse(localStorage.getItem(STORAGE_KEY) || "{}", {})
loadEdits(item) == IF item = NULL THEN EmptyObj ELSE safeJsonParse(item, EmptyObj)

(* The state a handler runs on.  A handler is a sequence of steps; once a  *)
(* step throws, the exception leaves the handler and the remaining steps   *)
(* do not run, but what was assigned before stays assigned.  result is     *)
(* "ok", "noop" (the handler returned early) or "threw".                   *)

Here ==
  [ baseData |-> baseData, edits |-> edits, sel |-> sel, lsEdits |-> lsEdits,
    lsBase |-> lsBase, view |-> view, shown |-> shown, full |-> full, result |-> "ok" ]

\* an uncaught exception leaves the handler
Throw(s) == [s EXCEPT !.result = "threw"]

\* the handler returns early (a toast and return)
Noop(s) == [s EXCEPT !.result = "noop"]

saveEdits(s) ==
  IF s.full THEN Throw(s) ELSE [s EXCEPT !.lsEdits = stringify(s.edits)]

clearEdits(s) == [s EXCEPT !.lsEdits = NULL]

setImportedBase(s, obj) ==
  IF s.full THEN Throw(s) ELSE [s EXCEPT !.lsBase = stringify(obj)]

persistBaseData(s) == setImportedBase(s, s.baseData)

NoSel == [periodId |-> NULL, blockId |-> NULL, week |-> NULL, day |-> NULL, exerciseId |-> NULL]

\* no file is being read, and none was
NoRead == [reading |-> FALSE, startedOn |-> NoSel, url |-> ""]

\* entryKey(sel.periodId, sel.blockId, sel.week, sel.day, sel.exerciseId)
SelectedKey(s) ==
  entryKey(s.sel.periodId, s.sel.blockId, s.sel.week, s.sel.day, s.sel.exerciseId)

\* getPatchedEntry(sel.periodId, sel.blockId, sel.week, sel.day, sel.exerciseId)
SelectedEntry(s) ==
  getPatchedEntry(s.baseData, s.edits, s.sel.periodId, s.sel.blockId, s.sel.week,
                  s.sel.day, s.sel.exerciseId)

-----------------------------------------------------------------------------
(* Routing *)

\* .filter(Boolean) on the segments
RECURSIVE NonEmpty(_)
NonEmpty(parts) ==
  IF parts = <<>> THEN <<>>
  ELSE IF Head(parts) = "" THEN NonEmpty(Tail(parts))
  ELSE <<Head(parts)>> \o NonEmpty(Tail(parts))

\* out[parts[i]] = parts[i+1] for i = 0, 2, ...: the last assignment of a tag wins
RouteTag(parts, tag) ==
  LET hits == {i \in 1..Len(parts) : i % 2 = 1 /\ parts[i] = tag}
      last == CHOOSE i \in hits : \A j \in hits : j <= i
  IN IF hits = {} \/ last + 1 > Len(parts) THEN UNDEF ELSE Str(parts[last + 1])

\* (location.hash || "").replace(/^#\/?/, "")
StripHash(h) ==
  IF Len(h) >= 2 /\ SubSeq(h, 1, 2) = "#/" THEN SubSeq(h, 3, Len(h))
  ELSE IF Len(h) >= 1 /\ Char(h, 1) = "#" THEN SubSeq(h, 2, Len(h))
  ELSE h

parseHash(hash) ==
  LET route(p, b, w, d, e) ==
        IF ~Truthy(p) THEN NULL
        ELSE [ periodId |-> p,
               blockId |-> b,
               week |-> IF Truthy(w) THEN JSNumber(w) ELSE NULL,
               day |-> IF Truthy(d) THEN JSNumber(d) ELSE NULL,
               exerciseId |-> OrElse(e, NULL) ]
      out(parts) ==
        route(RouteTag(parts, "p"), RouteTag(parts, "b"), RouteTag(parts, "w"),
              RouteTag(parts, "d"), RouteTag(parts, "e"))
      parse(h) == IF h = "" THEN NULL ELSE out(NonEmpty(Split(h, "/")))
  IN parse(StripHash(hash))

makeHash(periodId, blockId, week, day, exerciseId) ==
  "#/p/" \o JSString(periodId) \o "/b/" \o JSString(blockId) \o "/w/" \o JSString(week)
    \o "/d/" \o JSString(day) \o "/e/" \o JSString(exerciseId)

-----------------------------------------------------------------------------
(* Rendering, as far as it reads and writes the state *)

\* arr[0]?.id || null
FirstOr(seq, f) == IF Len(seq) = 0 THEN NULL ELSE OrElse(Get(seq[1], f), NULL)

\* renderNav(): fills the missing parts of the selection with first children;
\* list*(undefined) and baseData.periods on a null document throw a TypeError,
\* and so does a periods property that is not an array (renderSelect iterates
\* it, getPeriod calls its find)
renderNav(s) ==
  LET \* if (!sel.f) sel.f = first
      pick(t, f, first) == IF ~Truthy(t.sel[f]) THEN [t EXCEPT !.sel[f] = first] ELSE t
      exercises(t, dayObj) ==
        IF dayObj = UNDEF THEN Throw(t)
        ELSE pick(t, "exerciseId", FirstOr(dayObj.exercises, "id"))
      days(t, weekObj) == exercises(t, getDay(weekObj, t.sel.day))
      pickDay(t, weekObj) ==
        IF weekObj = UNDEF THEN Throw(t)
        ELSE days(pick(t, "day", FirstOr(weekObj.days, "day")), weekObj)
      weeks(t, block) == pickDay(t, getWeek(block, t.sel.week))
      pickWeek(t, block) ==
        IF block = UNDEF THEN Throw(t)
        ELSE weeks(pick(t, "week", FirstOr(block.weeks, "week")), block)
      blocks(t, period) == pickWeek(t, getBlock(period, t.sel.blockId))
      pickBlock(t, period) ==
        IF period = UNDEF THEN Throw(t)
        ELSE blocks(pick(t, "blockId", FirstOr(period.blocks, "id")), period)
      periods(t) == pickBlock(t, getPeriod(t.baseData, t.sel.periodId))
  IN IF s.baseData = NULL THEN Throw(s)
     ELSE IF ~Has(s.baseData, "periods") THEN Throw(s)
     ELSE periods(pick(s, "periodId", FirstOr(s.baseData.periods, "id")))

\* const [periodId, blockId, week, day, exerciseId] = r.k.split("|"), with
\* Number(week) and Number(day): what the recent edits list looks up.  A
\* destructured element the split did not yield is undefined.
DecodeKey(k) ==
  LET parts == Split(k, "|")
      at(i) == IF i <= Len(parts) THEN Str(parts[i]) ELSE UNDEF
  IN [periodId |-> at(1), blockId |-> at(2), week |-> JSNumber(at(3)),
      day |-> JSNumber(at(4)), exerciseId |-> at(5)]

\* renderOverview(): shows the overview, then counts: baseData.periods of a
\* null document, the loop over a periods that is not an array and
\* Object.keys(edits) of a null overlay throw a TypeError
renderOverview(s) ==
  LET showView(t) == [t EXCEPT !.view = "overview"] IN
  IF s.baseData = NULL THEN Throw(showView(s))
  ELSE IF ~Has(s.baseData, "periods") THEN Throw(showView(s))
  ELSE IF s.edits = NULL THEN Throw(showView(s))
  ELSE showView(s)

(* renderVideos(entry): one Remove button per video, each closing over the *)
(* array entry.videos.  shown describes that array object:                 *)
(*   buttons  how many Remove buttons were rendered,                       *)
(*   videos   what the array holds now,                                    *)
(*   base     the selection whose exercise node owns the array (NULL when  *)
(*            no node of baseData does),                                   *)
(*   keys     the overlay keys whose patch holds the array as its videos.  *)
NoVideos == [buttons |-> 0, videos |-> <<>>, base |-> NULL, keys |-> {}]

renderVideos(s, entry) ==
  [s EXCEPT !.shown = [ buttons |-> Len(entry.videos.arr),
                        videos |-> entry.videos.arr,
                        base |-> IF entry.videosOf = "base" /\ Len(entry.videos.arr) > 0
                                 THEN s.sel ELSE NULL,
                        keys |-> {} ]]

\* renderExercise(): shows the selected entry, or the overview when it does not resolve
renderExercise(s) ==
  LET show(entry) ==
        IF entry = TypeError THEN Throw(s)
        ELSE IF entry = NULL THEN renderOverview(s)
        ELSE renderVideos([s EXCEPT !.view = "exercise"], entry)
  IN IF s.baseData = NULL THEN Throw(s) ELSE show(SelectedEntry(s))

\* f(s) unless an earlier step threw
Then(s, f(_)) == IF s.result # "ok" THEN s ELSE f(s)

initFromHash(s, hash) ==
  LET parsed == parseHash(hash) IN
  IF parsed = NULL THEN Then(renderNav(s), renderOverview)
  ELSE
    LET s1 == renderNav([s EXCEPT !.sel = parsed])
        complete(t) == /\ Truthy(t.sel.periodId) /\ Truthy(t.sel.blockId)
                       /\ Truthy(t.sel.week) /\ Truthy(t.sel.day)
                       /\ Truthy(t.sel.exerciseId)
        show(t) == IF complete(t) THEN renderExercise(t) ELSE renderOverview(t)
    IN Then(s1, show)

-----------------------------------------------------------------------------
(* Search *)

\* String.prototype.includes
Includes(hay, q) ==
  \E i \in 1..(Len(hay) - Len(q) + 1) : SubSeq(hay, i, i + Len(q) - 1) = q

RECURSIVE Concat(_)
Concat(seqs) == IF seqs = <<>> THEN <<>> ELSE Head(seqs) \o Concat(Tail(seqs))

\* the five nested for..of loops: every exercise with the nodes above it, in
\* the order the loops visit them
NodesInOrder(doc) ==
  Concat([pi \in 1..Len(doc.periods) |->
    Concat([bi \in 1..Len(doc.periods[pi].blocks) |->
      Concat([wi \in 1..Len(doc.periods[pi].blocks[bi].weeks) |->
        Concat([di \in 1..Len(doc.periods[pi].blocks[bi].weeks[wi].days) |->
          [ei \in 1..Len(doc.periods[pi].blocks[bi].weeks[wi].days[di].exercises) |->
            [ p |-> doc.periods[pi],
              b |-> doc.periods[pi].blocks[bi],
              w |-> doc.periods[pi].blocks[bi].weeks[wi],
              d |-> doc.periods[pi].blocks[bi].weeks[wi].days[di],
              ex |-> doc.periods[pi].blocks[bi].weeks[wi].days[di].exercises[ei] ]]])])])])

\* [p.name, p.id, String(b.id), ..., patched.coachComment || ""].join(" ").toLowerCase()
Hay(n, patched) ==
  MapLower(JoinElem(n.p.name) \o " " \o JoinElem(n.p.id) \o " " \o JSString(n.b.id)
             \o " " \o JSString(n.w.week) \o " " \o JSString(n.d.day)
             \o " " \o JoinElem(n.ex.name)
             \o " " \o JoinElem(OrElse(patched.work, Str("")))
             \o " " \o JoinElem(OrElse(patched.lifterComment, Str("")))
             \o " " \o JoinElem(OrElse(patched.coachComment, Str(""))))

\* getPatchedEntry(p.id, b.id, w.week, d.day, ex.id) of a visited exercise
PatchedOf(doc, editsMap, n) ==
  getPatchedEntry(doc, editsMap, n.p.id, n.b.id, n.w.week, n.d.day, n.ex.id)

\* a variant that looks for the words in what the document holds
searchResultsOfBase(doc, editsMap, q) ==
  LET hit(n) == Includes(Hay(n, PatchedOf(doc, EmptyObj, n)), q)
      found == SelectSeq(NodesInOrder(doc), hit)
  IN [i \in 1..Len(found) |-> PatchedOf(doc, editsMap, found[i])]

\* the results array of the search handler for the query q (trimmed, lower case)
searchResults(doc, editsMap, q) ==
  LET hit(n) == Includes(Hay(n, PatchedOf(doc, editsMap, n)), q)
      found == SelectSeq(NodesInOrder(doc), hit)
  IN [i \in 1..Len(found) |-> PatchedOf(doc, editsMap, found[i])]

\* the searchInput input handler, from the text of the search box
searchInput(s, value) ==
  LET q == MapLower(Trim(value))
      nodes == NodesInOrder(s.baseData)
  IN IF q = ""
     THEN (IF Truthy(s.sel.exerciseId) THEN renderExercise(s) ELSE renderOverview(s))
     ELSE IF \E i \in 1..Len(nodes) :
               PatchedOf(s.baseData, s.edits, nodes[i]) \in {NULL, TypeError}
     THEN Throw(s)
     ELSE [s EXCEPT !.view = "search"]

-----------------------------------------------------------------------------
(* Editing / saving *)

\* {...prev, ...partialPatch, updatedAt: nowIso()}
\* a variant in which the fields of the previous patch win
MergePatchPrevWins(prev, partialPatch, now) ==
  ("updatedAt" :> Str(now)) @@ prev @@ partialPatch

\* {...prev, ...partialPatch, updatedAt: now}
MergePatch(prev, partialPatch, now) == ("updatedAt" :> Str(now)) @@ partialPatch @@ prev

saveEntryPatch(s, partialPatch) ==
  LET key == SelectedKey(s)
      prev == IF Has(s.edits, key) THEN s.edits[key] ELSE EmptyObj
      next == MergePatch(prev, partialPatch, nowIso)
  IN IF s.edits = NULL THEN Throw(s)
     ELSE saveEdits([s EXCEPT !.edits = (key :> next) @@ s.edits])

-----------------------------------------------------------------------------
(* Structure Manager *)

\* Array.prototype.sort(compare) is stable: x goes before y when compare puts
\* it first, or when compare ties and x was first
StableSort(seq, Before(_, _)) ==
  LET n == Len(seq)
      first(i, j) == Before(seq[i], seq[j]) \/ (~Before(seq[j], seq[i]) /\ i < j)
      rank(i) == Cardinality({j \in 1..n : j # i /\ first(j, i)}) + 1
  IN [r \in 1..n |-> seq[CHOOSE i \in 1..n : rank(i) = r]]

\* (a, b) => Number(a) - Number(b) is negative
NumBefore(a, b) ==
  LET x == JSNumber(a) y == JSNumber(b) IN IsNum(x) /\ IsNum(y) /\ x.num < y.num

\* the collation order of the characters the names of the model contain
Collation == " -0123456789abcdefghijklmnopqrstuvwxyz"

CollRank(c) ==
  IF \E i \in 1..Len(Collation) : Char(Collation, i) = c
  THEN CHOOSE i \in 1..Len(Collation) : Char(Collation, i) = c
  ELSE 0

RECURSIVE LexBefore(_, _)
LexBefore(a, b) ==
  IF b = "" THEN FALSE
  ELSE IF a = "" THEN TRUE
  ELSE IF CollRank(Char(a, 1)) # CollRank(Char(b, 1))
       THEN CollRank(Char(a, 1)) < CollRank(Char(b, 1))
  ELSE LexBefore(SubSeq(a, 2, Len(a)), SubSeq(b, 2, Len(b)))

\* a.localeCompare(b) < 0: letters compare without case first
LocaleBefore(a, b) == LexBefore(MapLower(a), MapLower(b))

PlaceholderExercise ==
  [ id |-> Str("exercise-1"), name |-> Str("Exercise 1"), work |-> Str(""),
    videos |-> Arr(<<>>), lifterComment |-> Str(""), coachComment |-> Str(""),
    updatedAt |-> NULL ]

PlaceholderDay == [day |-> Num(1), label |-> Str("Day 1"), exercises |-> <<>>]

PlaceholderPeriod ==
  [ id |-> Str("period-1"), name |-> Str("Period 1"),
    blocks |-> <<[id |-> Num(1), weeks |-> <<[week |-> Num(1), days |-> <<PlaceholderDay>>]>>]>> ]

PeriodIndex(doc, periodId) ==
  FindIndex(doc.periods, LAMBDA p : StrictEq(p.id, periodId))

BlockIndex(period, blockId) ==
  FindIndex(period.blocks, LAMBDA b : JSString(b.id) = JSString(blockId))

WeekIndex(block, week) ==
  FindIndex(block.weeks, LAMBDA w : StrictEq(JSNumber(w.week), JSNumber(week)))

DayIndex(weekObj, day) ==
  FindIndex(weekObj.days, LAMBDA d : StrictEq(JSNumber(d.day), JSNumber(day)))

\* where the selected exercise node is in the document (0: not found)
ExercisePath(doc, sl) ==
  LET inDay(pi, bi, wi, di) ==
        [ p |-> pi, b |-> bi, w |-> wi, d |-> di,
          e |-> IF di = 0 THEN 0
                ELSE FindIndex(doc.periods[pi].blocks[bi].weeks[wi].days[di].exercises,
                               LAMBDA e : StrictEq(e.id, sl.exerciseId)) ]
      inWeek(pi, bi, wi) ==
        inDay(pi, bi, wi,
              IF wi = 0 THEN 0 ELSE DayIndex(doc.periods[pi].blocks[bi].weeks[wi], sl.day))
      inBlock(pi, bi) ==
        inWeek(pi, bi, IF bi = 0 THEN 0 ELSE WeekIndex(doc.periods[pi].blocks[bi], sl.week))
      inPeriod(pi) ==
        inBlock(pi, IF pi = 0 THEN 0 ELSE BlockIndex(doc.periods[pi], sl.blockId))
  IN inPeriod(PeriodIndex(doc, sl.periodId))

\* ensureSelected, one level at a time: push the placeholder into an empty
\* array, then select the first node when the selection names none
ensurePeriod(s) ==
  LET periods == IF Len(s.baseData.periods) = 0 THEN <<PlaceholderPeriod>>
                 ELSE s.baseData.periods
      doc == [s.baseData EXCEPT !.periods = periods]
  IN [s EXCEPT
       !.baseData = doc,
       !.sel = IF ~Truthy(s.sel.periodId) \/ getPeriod(doc, s.sel.periodId) = UNDEF
               THEN [NoSel EXCEPT !.periodId = periods[1].id] ELSE s.sel]

ensureBlock(s) ==
  LET fill(at, blocks) ==
        [s EXCEPT
          !.baseData.periods[at.p].blocks = blocks,
          !.sel = IF \/ ~Truthy(s.sel.blockId)
                     \/ getBlock([blocks |-> blocks], s.sel.blockId) = UNDEF
                  THEN [s.sel EXCEPT !.blockId = blocks[1].id, !.week = NULL, !.day = NULL,
                                     !.exerciseId = NULL]
                  ELSE s.sel]
      push(at, p0) ==
        fill(at, IF Len(p0.blocks) = 0 THEN <<[id |-> Num(1), weeks |-> <<>>]>>
                 ELSE p0.blocks)
      in(at) == push(at, s.baseData.periods[at.p])
  IN in(ExercisePath(s.baseData, s.sel))

ensureWeek(s) ==
  LET fill(at, weeks) ==
        [s EXCEPT
          !.baseData.periods[at.p].blocks[at.b].weeks = weeks,
          !.sel = IF \/ ~Truthy(s.sel.week)
                     \/ getWeek([weeks |-> weeks], s.sel.week) = UNDEF
                  THEN [s.sel EXCEPT !.week = weeks[1].week, !.day = NULL,
                                     !.exerciseId = NULL]
                  ELSE s.sel]
      push(at, b0) ==
        fill(at, IF Len(b0.weeks) = 0 THEN <<[week |-> Num(1), days |-> <<>>]>>
                 ELSE b0.weeks)
      in(at) == push(at, s.baseData.periods[at.p].blocks[at.b])
  IN in(ExercisePath(s.baseData, s.sel))

ensureDay(s) ==
  LET fill(at, days) ==
        [s EXCEPT
          !.baseData.periods[at.p].blocks[at.b].weeks[at.w].days = days,
          !.sel = IF \/ ~Truthy(s.sel.day)
                     \/ getDay([days |-> days], s.sel.day) = UNDEF
                  THEN [s.sel EXCEPT !.day = days[1].day, !.exerciseId = NULL]
                  ELSE s.sel]
      push(at, w0) == fill(at, IF Len(w0.days) = 0 THEN <<PlaceholderDay>> ELSE w0.days)
      in(at) == push(at, s.baseData.periods[at.p].blocks[at.b].weeks[at.w])
  IN in(ExercisePath(s.baseData, s.sel))

ensureExercise(s) ==
  LET fill(at, exercises) ==
        [s EXCEPT
          !.baseData.periods[at.p].blocks[at.b].weeks[at.w].days[at.d].exercises = exercises,
          !.sel = IF \/ ~Truthy(s.sel.exerciseId)
                     \/ getExercise([exercises |-> exercises], s.sel.exerciseId) = UNDEF
                  THEN [s.sel EXCEPT !.exerciseId = exercises[1].id]
                  ELSE s.sel]
      push(at, d0) ==
        fill(at, IF Len(d0.exercises) = 0 THEN <<PlaceholderExercise>> ELSE d0.exercises)
      in(at) == push(at, s.baseData.periods[at.p].blocks[at.b].weeks[at.w].days[at.d])
  IN in(ExercisePath(s.baseData, s.sel))

ensureSelected(s) == ensureExercise(ensureDay(ensureWeek(ensureBlock(ensurePeriod(s)))))

\* the tail every add handler ends with
AfterAdd(s) ==
  Then(Then(Then(persistBaseData(s), ensureSelected), renderNav), renderOverview)

\* the tail every remove handler ends with
AfterRemove(s) == Then(AfterAdd(s), renderExercise)

\* a variant that selects the period that is already there
btnAddPeriodSelects(s, input) ==
  LET name == Trim(input)
      id == Str(slugify(name))
  IN IF name = "" THEN Noop(s)
     ELSE IF \E i \in 1..Len(s.baseData.periods) : StrictEq(s.baseData.periods[i].id, id)
     THEN Noop([s EXCEPT !.sel = [NoSel EXCEPT !.periodId = id]])
     ELSE AfterAdd([s EXCEPT
            !.baseData.periods = Append(@, [id |-> id, name |-> Str(name), blocks |-> <<>>]),
            !.sel = [NoSel EXCEPT !.periodId = id]])

btnAddPeriod(s, input) ==
  LET name == Trim(input)
      id == Str(slugify(name))
  IN IF name = "" THEN Noop(s)
     ELSE IF \E i \in 1..Len(s.baseData.periods) : StrictEq(s.baseData.periods[i].id, id)
     THEN Noop(s)
     ELSE AfterAdd([s EXCEPT
            !.baseData.periods = Append(@, [id |-> id, name |-> Str(name), blocks |-> <<>>]),
            !.sel = [NoSel EXCEPT !.periodId = id]])

btnAddBlock(s, input) ==
  LET pi == PeriodIndex(s.baseData, s.sel.periodId)
      blockId == JSNumber(Str(input))
  IN IF ~Truthy(blockId) \/ blockId.num < 1 THEN Noop(s)
     ELSE IF pi = 0 THEN Throw(s)
     ELSE
       LET blocks == s.baseData.periods[pi].blocks IN
       IF \E i \in 1..Len(blocks) : StrictEq(JSNumber(blocks[i].id), blockId) THEN Noop(s)
       ELSE AfterAdd([s EXCEPT
              !.baseData.periods[pi].blocks =
                 StableSort(Append(blocks, [id |-> blockId, weeks |-> <<>>]),
                            LAMBDA x, y : NumBefore(x.id, y.id)),
              !.sel = [@ EXCEPT !.blockId = blockId, !.week = NULL, !.day = NULL,
                                !.exerciseId = NULL]])

btnAddWeek(s, input) ==
  LET pi == PeriodIndex(s.baseData, s.sel.periodId)
      bi == IF pi = 0 THEN 0 ELSE BlockIndex(s.baseData.periods[pi], s.sel.blockId)
      week == JSNumber(Str(input))
  IN IF pi = 0 THEN Throw(s)
     ELSE IF ~Truthy(week) \/ week.num < 1 THEN Noop(s)
     ELSE IF bi = 0 THEN Throw(s)
     ELSE
       LET weeks == s.baseData.periods[pi].blocks[bi].weeks IN
       IF \E i \in 1..Len(weeks) : StrictEq(JSNumber(weeks[i].week), week) THEN Noop(s)
       ELSE AfterAdd([s EXCEPT
              !.baseData.periods[pi].blocks[bi].weeks =
                 StableSort(Append(weeks, [week |-> week, days |-> <<>>]),
                            LAMBDA x, y : NumBefore(x.week, y.week)),
              !.sel = [@ EXCEPT !.week = week, !.day = NULL, !.exerciseId = NULL]])

\* a variant that leaves the new day where push put it
btnAddDayAppends(s, input, labelInput) ==
  LET pi == PeriodIndex(s.baseData, s.sel.periodId)
      bi == IF pi = 0 THEN 0 ELSE BlockIndex(s.baseData.periods[pi], s.sel.blockId)
      wi == IF bi = 0 THEN 0 ELSE WeekIndex(s.baseData.periods[pi].blocks[bi], s.sel.week)
      day == JSNumber(Str(input))
  IN IF pi = 0 \/ bi = 0 THEN Throw(s)
     ELSE IF ~Truthy(day) \/ day.num < 1 THEN Noop(s)
     ELSE IF wi = 0 THEN Throw(s)
     ELSE
       LET days == s.baseData.periods[pi].blocks[bi].weeks[wi].days
           label == IF Trim(labelInput) # "" THEN Trim(labelInput)
                    ELSE "Day " \o JSString(day)
       IN
       IF \E i \in 1..Len(days) : StrictEq(JSNumber(days[i].day), day) THEN Noop(s)
       ELSE AfterAdd([s EXCEPT
              !.baseData.periods[pi].blocks[bi].weeks[wi].days =
                 Append(days, [day |-> day, label |-> Str(label), exercises |-> <<>>]),
              !.sel = [@ EXCEPT !.day = day, !.exerciseId = NULL]])

btnAddDay(s, input, labelInput) ==
  LET pi == PeriodIndex(s.baseData, s.sel.periodId)
      bi == IF pi = 0 THEN 0 ELSE BlockIndex(s.baseData.periods[pi], s.sel.blockId)
      wi == IF bi = 0 THEN 0 ELSE WeekIndex(s.baseData.periods[pi].blocks[bi], s.sel.week)
      day == JSNumber(Str(input))
  IN IF pi = 0 \/ bi = 0 THEN Throw(s)
     ELSE IF ~Truthy(day) \/ day.num < 1 THEN Noop(s)
     ELSE IF wi = 0 THEN Throw(s)
     ELSE
       LET days == s.baseData.periods[pi].blocks[bi].weeks[wi].days
           label == IF Trim(labelInput) # "" THEN Trim(labelInput)
                    ELSE "Day " \o JSString(day)
       IN
       IF \E i \in 1..Len(days) : StrictEq(JSNumber(days[i].day), day) THEN Noop(s)
       ELSE AfterAdd([s EXCEPT
              !.baseData.periods[pi].blocks[bi].weeks[wi].days =
                 StableSort(Append(days, [day |-> day, label |-> Str(label), exercises |-> <<>>]),
                            LAMBDA x, y : NumBefore(x.day, y.day)),
              !.sel = [@ EXCEPT !.day = day, !.exerciseId = NULL]])

\* a variant without the test for an exercise of the same id
btnAddExerciseAgain(s, nameInput, workInput) ==
  LET pi == PeriodIndex(s.baseData, s.sel.periodId)
      bi == IF pi = 0 THEN 0 ELSE BlockIndex(s.baseData.periods[pi], s.sel.blockId)
      wi == IF bi = 0 THEN 0 ELSE WeekIndex(s.baseData.periods[pi].blocks[bi], s.sel.week)
      di == IF wi = 0 THEN 0
            ELSE DayIndex(s.baseData.periods[pi].blocks[bi].weeks[wi], s.sel.day)
      name == Trim(nameInput)
      id == Str(slugify(name))
  IN IF pi = 0 \/ bi = 0 \/ wi = 0 THEN Throw(s)
     ELSE IF name = "" THEN Noop(s)
     ELSE IF di = 0 THEN Throw(s)
     ELSE
       LET exercises == s.baseData.periods[pi].blocks[bi].weeks[wi].days[di].exercises IN
       AfterAdd([s EXCEPT
              !.baseData.periods[pi].blocks[bi].weeks[wi].days[di].exercises =
                 StableSort(Append(exercises,
                              [ id |-> id, name |-> Str(name), work |-> Str(Trim(workInput)),
                                videos |-> Arr(<<>>), lifterComment |-> Str(""),
                                coachComment |-> Str(""), updatedAt |-> NULL ]),
                            LAMBDA x, y : LocaleBefore(x.name.str, y.name.str)),
              !.sel = [@ EXCEPT !.exerciseId = id]])

btnAddExercise(s, nameInput, workInput) ==
  LET pi == PeriodIndex(s.baseData, s.sel.periodId)
      bi == IF pi = 0 THEN 0 ELSE BlockIndex(s.baseData.periods[pi], s.sel.blockId)
      wi == IF bi = 0 THEN 0 ELSE WeekIndex(s.baseData.periods[pi].blocks[bi], s.sel.week)
      di == IF wi = 0 THEN 0
            ELSE DayIndex(s.baseData.periods[pi].blocks[bi].weeks[wi], s.sel.day)
      name == Trim(nameInput)
      id == Str(slugify(name))
  IN IF pi = 0 \/ bi = 0 \/ wi = 0 THEN Throw(s)
     ELSE IF name = "" THEN Noop(s)
     ELSE IF di = 0 THEN Throw(s)
     ELSE
       LET exercises == s.baseData.periods[pi].blocks[bi].weeks[wi].days[di].exercises IN
       IF \E i \in 1..Len(exercises) : StrictEq(exercises[i].id, id) THEN Noop(s)
       ELSE AfterAdd([s EXCEPT
              !.baseData.periods[pi].blocks[bi].weeks[wi].days[di].exercises =
                 StableSort(Append(exercises,
                              [ id |-> id, name |-> Str(name), work |-> Str(Trim(workInput)),
                                videos |-> Arr(<<>>), lifterComment |-> Str(""),
                                coachComment |-> Str(""), updatedAt |-> NULL ]),
                            LAMBDA x, y : LocaleBefore(x.name.str, y.name.str)),
              !.sel = [@ EXCEPT !.exerciseId = id]])

\* delete obj[key]
DeleteKey(obj, key) == [k \in DOMAIN obj \ {key} |-> obj[k]]

(* splice(idx, 1) takes a node out of the document: when the array the     *)
(* video list was rendered from belongs to an exercise in the removed      *)
(* subtree, it is no longer an array of baseData.  level is how many       *)
(* components of the path name the removed node.                           *)
Detach(s, level, removed) ==
  IF s.shown.base = NULL THEN s
  ELSE
    LET under(at) ==
          IF at.e # 0 /\ SubSeq(<<at.p, at.b, at.w, at.d, at.e>>, 1, level) = removed
          THEN [s EXCEPT !.shown.base = NULL] ELSE s
    IN under(ExercisePath(s.baseData, s.shown.base))

\* a variant that leaves the overlay as it is
btnRemoveExerciseKeepsPatch(s) ==
  LET pi == PeriodIndex(s.baseData, s.sel.periodId)
      bi == IF pi = 0 THEN 0 ELSE BlockIndex(s.baseData.periods[pi], s.sel.blockId)
      wi == IF bi = 0 THEN 0 ELSE WeekIndex(s.baseData.periods[pi].blocks[bi], s.sel.week)
      di == IF wi = 0 THEN 0
            ELSE DayIndex(s.baseData.periods[pi].blocks[bi].weeks[wi], s.sel.day)
  IN IF pi = 0 \/ bi = 0 \/ wi = 0 \/ di = 0 THEN Throw(s)
     ELSE
       LET exercises == s.baseData.periods[pi].blocks[bi].weeks[wi].days[di].exercises
           idx == FindIndex(exercises, LAMBDA e : StrictEq(e.id, s.sel.exerciseId))
           key == entryKey(s.sel.periodId, s.sel.blockId, s.sel.week, s.sel.day,
                           s.sel.exerciseId)
       IN IF idx = 0 THEN Noop(s)
          ELSE
            LET s0 == Detach(s, 5, <<pi, bi, wi, di, idx>>)
                s1 == [s0 EXCEPT
                        !.baseData.periods[pi].blocks[bi].weeks[wi].days[di].exercises =
                           RemoveAt(exercises, idx),
                        !.shown.keys = @ \ {key}]
                unselect(t) == [t EXCEPT !.sel.exerciseId = NULL]
            IN Then(Then(saveEdits(s1), unselect), AfterRemove)

btnRemoveExercise(s) ==
  LET pi == PeriodIndex(s.baseData, s.sel.periodId)
      bi == IF pi = 0 THEN 0 ELSE BlockIndex(s.baseData.periods[pi], s.sel.blockId)
      wi == IF bi = 0 THEN 0 ELSE WeekIndex(s.baseData.periods[pi].blocks[bi], s.sel.week)
      di == IF wi = 0 THEN 0
            ELSE DayIndex(s.baseData.periods[pi].blocks[bi].weeks[wi], s.sel.day)
  IN IF pi = 0 \/ bi = 0 \/ wi = 0 \/ di = 0 THEN Throw(s)
     ELSE
       LET exercises == s.baseData.periods[pi].blocks[bi].weeks[wi].days[di].exercises
           idx == FindIndex(exercises, LAMBDA e : StrictEq(e.id, s.sel.exerciseId))
           key == entryKey(s.sel.periodId, s.sel.blockId, s.sel.week, s.sel.day,
                           s.sel.exerciseId)
       IN IF idx = 0 THEN Noop(s)
          ELSE
            LET s0 == Detach(s, 5, <<pi, bi, wi, di, idx>>)
                s1 == [s0 EXCEPT
                        !.baseData.periods[pi].blocks[bi].weeks[wi].days[di].exercises =
                           RemoveAt(exercises, idx),
                        !.edits = DeleteKey(@, key),
                        !.shown.keys = @ \ {key}]
                unselect(t) == [t EXCEPT !.sel.exerciseId = NULL]
            IN Then(Then(saveEdits(s1), unselect), AfterRemove)

\* a variant that forgets the splice
btnRemoveDayNoSplice(s) ==
  LET pi == PeriodIndex(s.baseData, s.sel.periodId)
      bi == IF pi = 0 THEN 0 ELSE BlockIndex(s.baseData.periods[pi], s.sel.blockId)
      wi == IF bi = 0 THEN 0 ELSE WeekIndex(s.baseData.periods[pi].blocks[bi], s.sel.week)
  IN IF pi = 0 \/ bi = 0 \/ wi = 0 THEN Throw(s)
     ELSE
       LET days == s.baseData.periods[pi].blocks[bi].weeks[wi].days
           idx == FindIndex(days, LAMBDA d : StrictEq(JSNumber(d.day), JSNumber(s.sel.day)))
       IN IF idx = 0 THEN Noop(s)
          ELSE AfterRemove([s EXCEPT !.sel = [@ EXCEPT !.day = NULL, !.exerciseId = NULL]])

btnRemoveDay(s) ==
  LET pi == PeriodIndex(s.baseData, s.sel.periodId)
      bi == IF pi = 0 THEN 0 ELSE BlockIndex(s.baseData.periods[pi], s.sel.blockId)
      wi == IF bi = 0 THEN 0 ELSE WeekIndex(s.baseData.periods[pi].blocks[bi], s.sel.week)
  IN IF pi = 0 \/ bi = 0 \/ wi = 0 THEN Throw(s)
     ELSE
       LET days == s.baseData.periods[pi].blocks[bi].weeks[wi].days
           idx == FindIndex(days, LAMBDA d : StrictEq(JSNumber(d.day), JSNumber(s.sel.day)))
       IN IF idx = 0 THEN Noop(s)
          ELSE AfterRemove([Detach(s, 4, <<pi, bi, wi, idx>>) EXCEPT
                 !.baseData.periods[pi].blocks[bi].weeks[wi].days = RemoveAt(days, idx),
                 !.sel = [@ EXCEPT !.day = NULL, !.exerciseId = NULL]])

btnRemoveWeek(s) ==
  LET pi == PeriodIndex(s.baseData, s.sel.periodId)
      bi == IF pi = 0 THEN 0 ELSE BlockIndex(s.baseData.periods[pi], s.sel.blockId)
  IN IF pi = 0 \/ bi = 0 THEN Throw(s)
     ELSE
       LET weeks == s.baseData.periods[pi].blocks[bi].weeks
           idx == FindIndex(weeks, LAMBDA w : StrictEq(JSNumber(w.week), JSNumber(s.sel.week)))
       IN IF idx = 0 THEN Noop(s)
          ELSE AfterRemove([Detach(s, 3, <<pi, bi, idx>>) EXCEPT
                 !.baseData.periods[pi].blocks[bi].weeks = RemoveAt(weeks, idx),
                 !.sel = [@ EXCEPT !.week = NULL, !.day = NULL, !.exerciseId = NULL]])

btnRemoveBlock(s) ==
  LET pi == PeriodIndex(s.baseData, s.sel.periodId)
  IN IF pi = 0 THEN Throw(s)
     ELSE
       LET blocks == s.baseData.periods[pi].blocks
           idx == FindIndex(blocks, LAMBDA b : StrictEq(JSNumber(b.id), JSNumber(s.sel.blockId)))
       IN IF idx = 0 THEN Noop(s)
          ELSE AfterRemove([Detach(s, 2, <<pi, idx>>) EXCEPT
                 !.baseData.periods[pi].blocks = RemoveAt(blocks, idx),
                 !.sel = [@ EXCEPT !.blockId = NULL, !.week = NULL, !.day = NULL,
                                   !.exerciseId = NULL]])

btnRemovePeriod(s) ==
  LET idx == PeriodIndex(s.baseData, s.sel.periodId)
  IN IF idx = 0 THEN Noop(s)
     ELSE AfterRemove([Detach(s, 1, <<idx>>) EXCEPT
            !.baseData.periods = RemoveAt(@, idx), !.sel = NoSel])

-----------------------------------------------------------------------------
(* Exercise view and top buttons *)

\* btnAddLocalMedia after its await: the FileReader has the data URL
btnAddLocalMediaLoaded(s, dataUrl) ==
  LET entry == SelectedEntry(s)
  IN IF entry = NULL \/ entry = TypeError THEN Throw(s)
     ELSE Then(saveEntryPatch([s EXCEPT !.shown.keys = @ \ {SelectedKey(s)}],
                              [videos |-> Arr(Append(entry.videos.arr, dataUrl))]),
               renderExercise)

\* /^https?:\/\//i
LooksLikeUrl(url) ==
  \/ Len(url) >= 7 /\ MapLower(SubSeq(url, 1, 7)) = "http://"
  \/ Len(url) >= 8 /\ MapLower(SubSeq(url, 1, 8)) = "https://"

btnAddVideo(s, input) ==
  LET url == Trim(input)
      entry == SelectedEntry(s)
  IN IF url = "" THEN Noop(s)
     ELSE IF ~LooksLikeUrl(url) THEN Noop(s)
     ELSE IF entry = NULL \/ entry = TypeError THEN Throw(s)
     ELSE Then(saveEntryPatch([s EXCEPT !.shown.keys = @ \ {SelectedKey(s)}],
                              [videos |-> Arr(Append(entry.videos.arr, url))]),
               renderExercise)

(* The Remove button of video i (1-based here) of the rendered list:       *)
(* videos.splice(i, 1) changes the array the list was rendered from, in    *)
(* place, so every object that holds this array changes with it: the       *)
(* exercise node of baseData when the array is its own, and the patches    *)
(* that were given it.  saveEntryPatch({videos}) then stores the array     *)
(* itself under the key of the current selection.                          *)
SpliceShown(s, i) ==
  LET inPatches(t, a) ==
        [t EXCEPT !.shown.videos = a,
                  !.edits = [k \in DOMAIN t.edits |->
                              IF k \in t.shown.keys
                              THEN [t.edits[k] EXCEPT !.videos = Arr(a)] ELSE t.edits[k]]]
      inBase(at, a) ==
        IF at.e = 0 THEN s
        ELSE [s EXCEPT !.baseData.periods[at.p].blocks[at.b].weeks[at.w].days[at.d]
                          .exercises[at.e].videos = Arr(a)]
      splice(a) ==
        inPatches(inBase(IF s.shown.base = NULL THEN [e |-> 0]
                         ELSE ExercisePath(s.baseData, s.shown.base), a), a)
  IN splice(IF i <= Len(s.shown.videos) THEN RemoveAt(s.shown.videos, i)
            ELSE s.shown.videos)

btnRemoveVideo(s, i) ==
  LET save(t) == saveEntryPatch(t, [videos |-> Arr(t.shown.videos)])
      hold(t) == save([t EXCEPT !.shown.keys = @ \cup {SelectedKey(t)}])
  IN Then(hold(SpliceShown(s, i)), renderExercise)

btnSave(s, lifterComment, coachComment) ==
  Then(Then(saveEntryPatch(s, [lifterComment |-> Str(lifterComment),
                               coachComment |-> Str(coachComment)]),
            renderOverview),
       renderExercise)

\* double click on the work box; next is what prompt() returns
workBoxDblClick(s, next) ==
  IF SelectedEntry(s) = NULL \/ SelectedEntry(s) = TypeError THEN Throw(s)
  ELSE IF next = NULL THEN Noop(s)
  ELSE Then(saveEntryPatch(s, [work |-> next]), renderExercise)

btnResetLocal(s) ==
  LET s1 == clearEdits(s)
  IN Then(Then([s1 EXCEPT !.edits = loadEdits(s1.lsEdits), !.shown.keys = {}],
               renderOverview),
          renderExercise)

(* A document's periods property is a sequence when it holds an array.     *)
(* A parsed object whose periods property holds a string or a number       *)
(* carries that value in the field scalarPeriods instead, so that periods, *)
(* where present, is always an array.                                      *)
HasPeriodsArray(doc) == Has(doc, "periods")

\* !!obj.periods: an array is truthy, whatever it holds
PeriodsTruthy(obj) == HasPeriodsArray(obj) \/ Truthy(Get(obj, "scalarPeriods"))

\* !!obj for what JSON.parse returns: objects and arrays are truthy
ObjTruthy(obj) ==
  IF obj = NULL THEN FALSE
  ELSE IF IsStr(obj) \/ IsNum(obj) THEN Truthy(obj)
  ELSE TRUE

\* the fileImport change handler, from the text of the chosen file on
\* a variant that keeps the overlay in memory
fileImportKeepsEdits(s, text) ==
  LET obj == safeJsonParse(text, NULL) IN
  IF ~ObjTruthy(obj) \/ ~PeriodsTruthy(obj) THEN Noop(s)
  ELSE
    LET replace(t) ==
          LET t1 == clearEdits(t)
          IN [t1 EXCEPT !.baseData = obj, !.sel = NoSel,
                        !.shown.keys = {}, !.shown.base = NULL]
    IN Then(Then(Then(setImportedBase(s, obj), replace), renderNav), renderOverview)

fileImport(s, text) ==
  LET obj == safeJsonParse(text, NULL) IN
  IF ~ObjTruthy(obj) \/ ~PeriodsTruthy(obj) THEN Noop(s)
  ELSE
    LET replace(t) ==
          LET t1 == clearEdits(t)
          IN [t1 EXCEPT !.edits = loadEdits(t1.lsEdits), !.baseData = obj, !.sel = NoSel,
                        !.shown.keys = {}, !.shown.base = NULL]
    IN Then(Then(Then(setImportedBase(s, obj), replace), renderNav), renderOverview)

-----------------------------------------------------------------------------
(* Merge base dataset with edits patches into a single JSON (export) *)

\* every exercise of the document, as the locator its nodes spell
ExerciseLocators(doc) ==
  UNION { UNION { UNION { UNION {
    { [periodId |-> p.id, blockId |-> b.id, week |-> w.week, day |-> d.day,
       exerciseId |-> d.exercises[ei].id] : ei \in 1..Len(d.exercises) }
    : d \in {w.days[di] : di \in 1..Len(w.days)} }
    : w \in {b.weeks[wi] : wi \in 1..Len(b.weeks)} }
    : b \in {p.blocks[bi] : bi \in 1..Len(p.blocks)} }
    : p \in {doc.periods[pi] : pi \in 1..Len(doc.periods)} }

\* a variant that leaves the work of the node as it is
MergeExerciseKeepsWork(ex, patch) ==
  IF patch = UNDEF THEN ex
  ELSE
    LET put(o, f, ok) == IF ok THEN (f :> patch[f]) @@ o ELSE o
        o2 == put(ex, "videos", IsArr(Get(patch, "videos")))
        o3 == put(o2, "lifterComment", IsStr(Get(patch, "lifterComment")))
        o4 == put(o3, "coachComment", IsStr(Get(patch, "coachComment")))
    IN put(o4, "updatedAt", IsStr(Get(patch, "updatedAt")))

MergeExercise(ex, patch) ==
  IF patch = UNDEF THEN ex
  ELSE
    LET put(o, f, ok) == IF ok THEN (f :> patch[f]) @@ o ELSE o
        o1 == put(ex, "work", IsStr(Get(patch, "work")))
        o2 == put(o1, "videos", IsArr(Get(patch, "videos")))
        o3 == put(o2, "lifterComment", IsStr(Get(patch, "lifterComment")))
        o4 == put(o3, "coachComment", IsStr(Get(patch, "coachComment")))
    IN put(o4, "updatedAt", IsStr(Get(patch, "updatedAt")))

mergeBaseWithEdits(base, editsMap) ==
  [base EXCEPT !.periods = [pi \in 1..Len(base.periods) |->
    LET p == base.periods[pi] IN
    [p EXCEPT !.blocks = [bi \in 1..Len(p.blocks) |->
      LET b == p.blocks[bi] IN
      [b EXCEPT !.weeks = [wi \in 1..Len(b.weeks) |->
        LET w == b.weeks[wi] IN
        [w EXCEPT !.days = [di \in 1..Len(w.days) |->
          LET d == w.days[di] IN
          [d EXCEPT !.exercises = [ei \in 1..Len(d.exercises) |->
            LET ex == d.exercises[ei] IN
            MergeExercise(ex, Get(editsMap, entryKey(p.id, b.id, w.week, d.day, ex.id)))
          ]]
        ]]
      ]]
    ]]
  ]]

(* The keys whose patch gives the merged document its videos array: the    *)
(* clone of base shares nothing with base, and ex.videos = patch.videos    *)
(* puts the overlay's own array object into the clone.                     *)
mergeSharedVideos(base, editsMap) ==
  { k \in { entryKey(l.periodId, l.blockId, l.week, l.day, l.exerciseId)
            : l \in ExerciseLocators(base) } :
      LET patch == Get(editsMap, k)
      IN patch # UNDEF /\ patch # NULL /\ IsArr(Get(patch, "videos")) }

-----------------------------------------------------------------------------
(* Bounds and inputs *)

MaxExercises == 2   \* add handlers run while the document has fewer exercises
MaxPatches == 1     \* a new overlay key is written while the overlay has fewer keys
MaxVideos == 2      \* a video is added while the entry shows fewer videos
MaxClock == 2       \* the clock stops ticking here

BaseVideo == "https://youtu.be/base0"

\* data/data.json as the transport delivers it
FetchedDoc ==
  [ periods |-> <<
      [ id |-> Str("serie-1-2026"), name |-> Str("Serie 1 2026"),
        blocks |-> <<
          [ id |-> Num(1),
            weeks |-> <<
              [ week |-> Num(1),
                days |-> <<
                  [ day |-> Num(1), label |-> Str("Day 1"),
                    exercises |-> <<
                      [ id |-> Str("squat"), name |-> Str("Squat"), work |-> Str("5x5"),
                        videos |-> Arr(<<BaseVideo>>) ] >> ] >> ] >> ] >> ] >> ]

\* a file offered to Import JSON
ImportedDoc ==
  [ periods |-> <<
      [ id |-> Str("serie-2"), name |-> Str("Serie 2"),
        blocks |-> <<
          [ id |-> Num(1),
            weeks |-> <<
              [ week |-> Num(1),
                days |-> <<
                  [ day |-> Num(1), label |-> Str("Day 1"),
                    exercises |-> <<
                      [ id |-> Str("squat"), name |-> Str("Squat"), work |-> Str("3x3"),
                        videos |-> Arr(<<>>), lifterComment |-> Str(""),
                        coachComment |-> Str(""), updatedAt |-> NULL ] >> ] >> ] >> ] >> ] >> ]

ImportFiles == { stringify(ImportedDoc), stringify([notes |-> Str("x")]), [text |-> "{oops"] }

\* files whose periods property is not an array, and one that is a number
ShapelessFiles ==
  { stringify([scalarPeriods |-> Num(5)]), stringify([scalarPeriods |-> Str("abc")]),
    stringify([scalarPeriods |-> Num(0)]), stringify(Num(7)) }

PeriodNameInputs == {"Serie 1 2026", " "}
NumberInputs == {"1", "2", "0"}
ExerciseInputs == { <<"Squat", "5x5">>, <<"", "">> }
UrlInputs == {"https://youtu.be/abc123", "abc123"}
CommentInputs == { <<"felt heavy", "">>, <<"", "bar path ok">> }
WorkInputs == { Str("3x5"), NULL }

\* the most a local file may weigh, in megabytes
MAX_BYTES == 8

\* the files chosen for Add local media: the part of the type before the
\* slash, the size in megabytes, and the data URL the FileReader gives
MediaFiles ==
  { [major |-> "image", size |-> 1, url |-> "data:image/png;base64,AAAA"],
    [major |-> "video", size |-> 9, url |-> "data:video/mp4;base64,AAAA"],
    [major |-> "text", size |-> 1, url |-> "data:text/plain;base64,AAAA"] }

\* what is typed into the search box
SearchInputs == { "squat", "SQUAT ", "3x5", "nonexistent-term", "  ", "", "1 1 1", "heavy", "5" }

\* a training log written by hand, whose ids hold the character | : the
\* import accepts any object with a truthy periods
PipedDoc ==
  [ periods |-> <<
      [ id |-> Str("a"), name |-> Str("A"),
        blocks |-> <<
          [ id |-> Num(1),
            weeks |-> <<
              [ week |-> Num(1),
                days |-> <<
                  [ day |-> Num(1), label |-> Str("Day 1"),
                    exercises |-> <<
                      [ id |-> Str("1|x"), name |-> Str("One x"), work |-> Str("5x5"),
                        videos |-> Arr(<<>>) ] >> ] >> ] >> ] >> ],
      [ id |-> Str("a|1"), name |-> Str("A one"),
        blocks |-> <<
          [ id |-> Num(1),
            weeks |-> <<
              [ week |-> Num(1),
                days |-> <<
                  [ day |-> Num(1), label |-> Str("Day 1"),
                    exercises |-> <<
                      [ id |-> Str("x"), name |-> Str("X"), work |-> Str("1x1"),
                        videos |-> Arr(<<>>) ] >> ] >> ] >> ] >> ] >> ]

\* names typed into the add forms: new, already there in another spelling,
\* and without a letter or digit
TypedPeriodNames == {"Serie 1 2026", "SERIE 1-2026", "Off Season", "!!"}
TypedExercises == { <<"Squat", "5x5">>, <<"'squat'", "">>, <<"Bench", "3x8">>, <<"?", "">> }

RECURSIVE Sum(_, _)
Sum(f, n) == IF n = 0 THEN 0 ELSE f[n] + Sum(f, n - 1)

\* how many exercise nodes the document has
ExerciseCount(doc) ==
  Sum([pi \in 1..Len(doc.periods) |->
    Sum([bi \in 1..Len(doc.periods[pi].blocks) |->
      Sum([wi \in 1..Len(doc.periods[pi].blocks[bi].weeks) |->
        Sum([di \in 1..Len(doc.periods[pi].blocks[bi].weeks[wi].days) |->
              Len(doc.periods[pi].blocks[bi].weeks[wi].days[di].exercises)],
            Len(doc.periods[pi].blocks[bi].weeks[wi].days))],
          Len(doc.periods[pi].blocks[bi].weeks))],
        Len(doc.periods[pi].blocks))],
      Len(doc.periods))

\* the links the page itself offers (Open buttons) and some typed by hand
Hashes(doc) ==
  { "", "#/p/nope/b/1/w/1/d/1/e/squat", "#/p/serie-1-2026" }
    \cup (IF doc = NULL THEN {}
          ELSE IF ~Has(doc, "periods") THEN {}
          ELSE { makeHash(l.periodId, l.blockId, l.week, l.day, l.exerciseId)
                 : l \in ExerciseLocators(doc) })

-----------------------------------------------------------------------------
(* The state machine *)

Init ==
  /\ pc = "loading"
  /\ baseData = NULL
  /\ lsEdits = NULL
  /\ lsBase = NULL
  /\ edits = loadEdits(lsEdits)
  /\ sel = NoSel
  /\ view = "none"
  /\ shown = NoVideos
  /\ full = FALSE
  /\ clock = 1
  /\ media = NoRead
  /\ lastOp = [name |-> "init", result |-> "ok"]

\* what the overlay item of the store may hold when the script is evaluated:
\* no item, text that is not JSON, the text null, and an overlay saved earlier
StoredOverlays ==
  { NULL, [text |-> "{oops"], stringify(NULL),
    stringify(entryKey(Str("serie-1-2026"), Num(1), Num(1), Num(1), Str("squat"))
                :> [work |-> Str("3x5"), updatedAt |-> Str(IsoTimes[1])]) }

\* the state after construction in a browser whose store holds an overlay item
InitStored ==
  /\ pc = "loading"
  /\ baseData = NULL
  /\ lsEdits \in StoredOverlays
  /\ lsBase = NULL
  /\ edits = loadEdits(lsEdits)
  /\ sel = NoSel
  /\ view = "none"
  /\ shown = NoVideos
  /\ full = FALSE
  /\ clock = 1
  /\ media = NoRead
  /\ lastOp = [name |-> "init", result |-> "ok"]

\* what an overlay item written by another program may hold under the key
\* of the squat: fields of the expected shape and of other shapes, fields
\* the page does not know, and values that are no object
ShapedPatches ==
  { [work |-> Str("3x5")],
    [work |-> Num(5), videos |-> Arr(<<"https://youtu.be/new">>)],
    [videos |-> Str("https://youtu.be/new"), lifterComment |-> Str("heavy")],
    [videos |-> Arr(<<>>), coachComment |-> NULL, updatedAt |-> Str(IsoTimes[1])],
    [lifterComment |-> Arr(<<"x">>), coachComment |-> Str("good"), updatedAt |-> Num(1)],
    [work |-> Str(""), sets |-> Num(3)],
    NULL,
    Str("3x5") }

\* the state after construction in a browser whose store holds such an item
InitShaped ==
  /\ pc = "loading"
  /\ baseData = NULL
  /\ lsEdits \in
       { stringify(entryKey(Str("serie-1-2026"), Num(1), Num(1), Num(1), Str("squat"))
                     :> patch) : patch \in ShapedPatches }
  /\ lsBase = NULL
  /\ edits = loadEdits(lsEdits)
  /\ sel = NoSel
  /\ view = "none"
  /\ shown = NoVideos
  /\ full = FALSE
  /\ clock = 1
  /\ media = NoRead
  /\ lastOp = [name |-> "init", result |-> "ok"]

\* what a handler leaves behind
Leaves(s, name) ==
  /\ baseData' = s.baseData
  /\ edits' = s.edits
  /\ sel' = s.sel
  /\ lsEdits' = s.lsEdits
  /\ lsBase' = s.lsBase
  /\ view' = s.view
  /\ shown' = s.shown
  /\ lastOp' = [name |-> name, result |-> s.result]
  /\ UNCHANGED <<full, clock>>

\* what a handler that reads no file leaves behind
Commit(s, name) == Leaves(s, name) /\ UNCHANGED media

\* fetchBaseData(): the imported base when there is one, else data/data.json
fetchBaseData(fetched) ==
  IF lsBase # NULL /\ safeJsonParse(lsBase, NULL) # NULL
  THEN safeJsonParse(lsBase, NULL) ELSE fetched

\* main(): the load succeeded; the handlers are wired and the route is read
MainLoaded ==
  /\ pc = "loading"
  /\ pc' = "ready"
  /\ \E h \in Hashes(NULL) :
       Commit(initFromHash([Here EXCEPT !.baseData = fetchBaseData(FetchedDoc)], h),
              "main")

\* main(): fetch failed; the page is replaced by the failure message
MainFailed ==
  /\ pc = "loading"
  /\ lsBase = NULL \/ safeJsonParse(lsBase, NULL) = NULL
  /\ pc' = "failed"
  /\ lastOp' = [name |-> "main", result |-> "failed"]
  /\ UNCHANGED <<baseData, edits, sel, lsEdits, lsBase, view, shown, full, clock, media>>

\* window hashchange: registered when the script is evaluated
HashChange ==
  /\ \E h \in Hashes(baseData) : Commit(initFromHash(Here, h), "hashchange")
  /\ UNCHANGED pc

Tick ==
  /\ clock < MaxClock
  /\ clock' = clock + 1
  /\ UNCHANGED <<pc, baseData, edits, sel, lsEdits, lsBase, view, shown, full, media, lastOp>>

\* the origin's storage runs out of quota, or gets room again
StorageQuota ==
  /\ full' = ~full
  /\ UNCHANGED <<pc, baseData, edits, sel, lsEdits, lsBase, view, shown, clock, media, lastOp>>

MayPatch == Has(edits, SelectedKey(Here)) \/ Cardinality(DOMAIN edits) < MaxPatches

AddVideo ==
  /\ pc = "ready" /\ view = "exercise" /\ MayPatch
  /\ IF SelectedEntry(Here) = NULL THEN TRUE
     ELSE Len(SelectedEntry(Here).videos.arr) < MaxVideos
  /\ \E url \in UrlInputs :
       Commit(btnAddVideo(Here, url), "addVideo")
  /\ UNCHANGED pc

RemoveVideo ==
  /\ pc = "ready" /\ view = "exercise" /\ MayPatch
  /\ \E i \in 1..shown.buttons :
       Commit(btnRemoveVideo(Here, i), "removeVideo")
  /\ UNCHANGED pc

Save ==
  /\ pc = "ready" /\ view = "exercise" /\ MayPatch
  /\ \E c \in CommentInputs :
       Commit(btnSave(Here, c[1], c[2]), "save")
  /\ UNCHANGED pc

EditWork ==
  /\ pc = "ready" /\ view = "exercise" /\ MayPatch
  /\ \E next \in WorkInputs :
       Commit(workBoxDblClick(Here, next), "editWork")
  /\ UNCHANGED pc

ResetLocal ==
  /\ pc = "ready"
  /\ Commit(btnResetLocal(Here), "resetLocal")
  /\ UNCHANGED pc

Export ==
  /\ pc = "ready"
  /\ lastOp' = [name |-> "export", result |-> "ok"]
  /\ UNCHANGED <<pc, baseData, edits, sel, lsEdits, lsBase, view, shown, full, clock, media>>

Import ==
  /\ pc = "ready"
  /\ \E text \in ImportFiles :
       Commit(fileImport(Here, text), "import")
  /\ UNCHANGED pc

\* Import JSON with the file the site was deployed with
ImportFetched ==
  /\ pc = "ready"
  /\ Commit(fileImport(Here, stringify(FetchedDoc)), "import")
  /\ UNCHANGED pc

\* Import JSON with the hand-written log
ImportPiped ==
  /\ pc = "ready"
  /\ Commit(fileImport(Here, stringify(PipedDoc)), "import")
  /\ UNCHANGED pc

\* Import JSON with a file that is JSON but not a training log
ImportShapeless ==
  /\ pc = "ready"
  /\ \E text \in ShapelessFiles :
       Commit(fileImport(Here, text), "import")
  /\ UNCHANGED pc

\* Add local media, up to its await: the file is checked and the read starts
MediaClick ==
  /\ pc = "ready" /\ view = "exercise" /\ ~media.reading
  /\ \E file \in MediaFiles :
       IF file.major \in {"video", "image"} /\ file.size <= MAX_BYTES
       THEN /\ media' = [reading |-> TRUE, startedOn |-> sel, url |-> file.url]
            /\ lastOp' = [name |-> "mediaClick", result |-> "ok"]
       ELSE /\ media' = media
            /\ lastOp' = [name |-> "mediaClick", result |-> "noop"]
  /\ UNCHANGED <<pc, baseData, edits, sel, lsEdits, lsBase, view, shown, full, clock>>

\* Add local media, from its await on: the read is done
MediaLoaded ==
  /\ pc = "ready" /\ media.reading /\ MayPatch
  /\ IF SelectedEntry(Here) \in {NULL, TypeError} THEN TRUE
     ELSE Len(SelectedEntry(Here).videos.arr) < MaxVideos
  /\ Leaves(btnAddLocalMediaLoaded(Here, media.url), "addLocalMedia")
  /\ media' = [media EXCEPT !.reading = FALSE]
  /\ UNCHANGED pc

\* typing into the search box
Search ==
  /\ pc = "ready"
  /\ \E value \in SearchInputs : Commit(searchInput(Here, value), "search")
  /\ UNCHANGED pc

MayAdd == ExerciseCount(baseData) < MaxExercises

AddPeriod ==
  /\ pc = "ready" /\ MayAdd
  /\ \E name \in PeriodNameInputs :
       Commit(btnAddPeriod(Here, name), "addPeriod")
  /\ UNCHANGED pc

AddBlock ==
  /\ pc = "ready" /\ MayAdd
  /\ \E n \in NumberInputs :
       Commit(btnAddBlock(Here, n), "addBlock")
  /\ UNCHANGED pc

AddWeek ==
  /\ pc = "ready" /\ MayAdd
  /\ \E n \in NumberInputs :
       Commit(btnAddWeek(Here, n), "addWeek")
  /\ UNCHANGED pc

AddDay ==
  /\ pc = "ready" /\ MayAdd
  /\ \E n \in NumberInputs :
       Commit(btnAddDay(Here, n, ""), "addDay")
  /\ UNCHANGED pc

AddExercise ==
  /\ pc = "ready" /\ MayAdd
  /\ \E e \in ExerciseInputs :
       Commit(btnAddExercise(Here, e[1], e[2]), "addExercise")
  /\ UNCHANGED pc

\* Add period and Add exercise with the typed names
AddPeriodTyped ==
  /\ pc = "ready" /\ MayAdd
  /\ \E name \in TypedPeriodNames :
       Commit(btnAddPeriod(Here, name), "addPeriod")
  /\ UNCHANGED pc

AddExerciseTyped ==
  /\ pc = "ready" /\ MayAdd
  /\ \E e \in TypedExercises :
       Commit(btnAddExercise(Here, e[1], e[2]), "addExercise")
  /\ UNCHANGED pc

RemoveExercise ==
  /\ pc = "ready"
  /\ Commit(btnRemoveExercise(Here), "removeExercise")
  /\ UNCHANGED pc

RemoveDay ==
  /\ pc = "ready"
  /\ Commit(btnRemoveDay(Here), "removeDay")
  /\ UNCHANGED pc

RemoveWeek ==
  /\ pc = "ready"
  /\ Commit(btnRemoveWeek(Here), "removeWeek")
  /\ UNCHANGED pc

RemoveBlock ==
  /\ pc = "ready"
  /\ Commit(btnRemoveBlock(Here), "removeBlock")
  /\ UNCHANGED pc

RemovePeriod ==
  /\ pc = "ready"
  /\ Commit(btnRemovePeriod(Here), "removePeriod")
  /\ UNCHANGED pc

(* A caller of mergeBaseWithEdits(baseData, edits) that changes what it    *)
(* got: out...exercises[i].videos.pop() on one exercise of the returned    *)
(* document.  The array is changed in place, in every object that holds it. *)
MutateMerged ==
  /\ pc = "ready"
  /\ \E l \in ExerciseLocators(mergeBaseWithEdits(baseData, edits)) :
       LET k == entryKey(l.periodId, l.blockId, l.week, l.day, l.exerciseId)
       IN edits' = IF k \in mergeSharedVideos(baseData, edits) /\ edits[k].videos.arr # <<>>
                   THEN [edits EXCEPT ![k].videos =
                           Arr(SubSeq(@.arr, 1, Len(@.arr) - 1))]
                   ELSE edits
  /\ lastOp' = [name |-> "mutateMerged", result |-> "ok"]
  /\ UNCHANGED <<pc, baseData, sel, lsEdits, lsBase, view, shown, full, clock, media>>

Next ==
  \/ MainLoaded \/ MainFailed \/ HashChange \/ Tick \/ StorageQuota
  \/ AddVideo \/ RemoveVideo \/ Save \/ EditWork \/ ResetLocal \/ Export \/ Import
  \/ AddPeriod \/ AddBlock \/ AddWeek \/ AddDay \/ AddExercise
  \/ RemoveExercise \/ RemoveDay \/ RemoveWeek \/ RemoveBlock \/ RemovePeriod

\* the whole program
Spec == Init /\ [][Next]_vars

\* the exercise view: navigation and the overlay edits, the document as loaded
NextOverlay ==
  \/ MainLoaded \/ MainFailed \/ HashChange \/ Tick
  \/ AddVideo \/ RemoveVideo \/ Save \/ EditWork \/ ResetLocal \/ Export

SpecOverlay == Init /\ [][NextOverlay]_vars

\* the exercise view with a caller that merges and changes the result; no
\* video is removed through the view, so no patch holds an array of baseData
NextMerge ==
  \/ MainLoaded \/ HashChange \/ AddVideo \/ Save \/ EditWork \/ ResetLocal \/ Export
  \/ MutateMerged

SpecMerge == Init /\ [][NextMerge]_vars

\* edits and structure changes while the storage may run out of quota
NextQuota ==
  \/ MainLoaded \/ HashChange \/ StorageQuota
  \/ EditWork \/ AddBlock

SpecQuota == Init /\ [][NextQuota]_vars

\* the structure manager, import and navigation, the overlay left as loaded
NextStructure ==
  \/ MainLoaded \/ MainFailed \/ HashChange \/ Import
  \/ AddPeriod \/ AddBlock \/ AddWeek \/ AddDay \/ AddExercise
  \/ RemoveExercise \/ RemoveDay \/ RemoveWeek \/ RemoveBlock \/ RemovePeriod

SpecStructure == Init /\ [][NextStructure]_vars

\* removals under an overlay: one kind of edit, adds of days and exercises
NextOrphans ==
  \/ MainLoaded \/ HashChange \/ EditWork \/ AddDay \/ AddExercise
  \/ RemoveExercise \/ RemoveDay \/ RemoveWeek \/ RemoveBlock \/ RemovePeriod

SpecOrphans == Init /\ [][NextOrphans]_vars

\* import of files of any shape over an edited overlay, with navigation,
\* under a quota
NextImport ==
  \/ MainLoaded \/ HashChange \/ Tick \/ StorageQuota \/ EditWork
  \/ Import \/ ImportFetched \/ ImportShapeless

SpecImport == Init /\ [][NextImport]_vars

\* a session that starts on a store that already holds an overlay item
NextStored ==
  \/ MainLoaded \/ HashChange \/ Tick \/ StorageQuota
  \/ EditWork \/ Save \/ ResetLocal

SpecStored == InitStored /\ [][NextStored]_vars

\* a session that reads an overlay of assorted shapes
NextShaped ==
  \/ MainLoaded \/ HashChange \/ Tick \/ ResetLocal

SpecShaped == InitShaped /\ [][NextShaped]_vars

\* edits on an imported document whose ids were not made by slugify
NextKeys ==
  \/ MainLoaded \/ HashChange \/ Tick \/ ImportPiped \/ EditWork \/ ResetLocal

SpecKeys == Init /\ [][NextKeys]_vars

\* search over a document with added exercises and an edited overlay
NextSearch ==
  \/ MainLoaded \/ HashChange \/ EditWork \/ Save \/ AddExerciseTyped \/ Search

SpecSearch == Init /\ [][NextSearch]_vars

\* export over an edited overlay and a document with added and removed exercises
NextExport ==
  \/ MainLoaded \/ HashChange \/ AddVideo \/ Save \/ EditWork
  \/ AddExerciseTyped \/ RemoveExercise \/ Export

SpecExport == Init /\ [][NextExport]_vars

\* Add local media while the user navigates, adds and removes exercises
NextMedia ==
  \/ MainLoaded \/ HashChange \/ MediaClick \/ MediaLoaded
  \/ AddExerciseTyped \/ RemoveExercise

SpecMedia == Init /\ [][NextMedia]_vars

\* the add forms with typed names, and what makes room for another add
NextAdds ==
  \/ MainLoaded \/ HashChange
  \/ AddPeriodTyped \/ AddBlock \/ AddWeek \/ AddDay \/ AddExerciseTyped
  \/ RemoveExercise \/ RemoveDay

SpecAdds == Init /\ [][NextAdds]_vars

-----------------------------------------------------------------------------
(* Properties *)

\* the overlay as the persistent store holds it
StoredEdits == loadEdits(lsEdits)

\* the first level components of the selected locator (1 names a period, 4 a day)
SelectedPrefix(level) == SubSeq(Split(SelectedKey(Here), "|"), 1, level)

\* the keys of an overlay whose locator falls under the node a prefix names
KeysUnder(map, prefix) ==
  { k \in DOMAIN map :
      LET parts == Split(k, "|")
      IN Len(parts) >= Len(prefix) /\ SubSeq(parts, 1, Len(prefix)) = prefix }

\* after this step neither the overlay nor its stored copy has a key under
\* the node that was selected at the given level before the step
PurgedUnder(level) ==
  /\ KeysUnder(edits', SelectedPrefix(level)) = {}
  /\ KeysUnder(loadEdits(lsEdits'), SelectedPrefix(level)) = {}

(* C1: a removal of the selected day, week, block or period that runs to   *)
(* its end leaves no overlay key, in memory or in the persistent store,    *)
(* whose locator falls under the removed node.                             *)
C1_RemovalPurgesOverlay ==
  [][ /\ (RemoveDay /\ lastOp'.result = "ok") => PurgedUnder(4)
      /\ (RemoveWeek /\ lastOp'.result = "ok") => PurgedUnder(3)
      /\ (RemoveBlock /\ lastOp'.result = "ok") => PurgedUnder(2)
      /\ (RemovePeriod /\ lastOp'.result = "ok") => PurgedUnder(1) ]_vars

\* a state reached by removing a day that left a key of that day behind
C1_OrphanAfterRemoveDay ==
  /\ lastOp = [name |-> "removeDay", result |-> "ok"]
  /\ \E k \in DOMAIN edits \cap DOMAIN StoredEdits :
       getPatchedEntry(baseData, edits, Str(Split(k, "|")[1]), Str(Split(k, "|")[2]),
                       Str(Split(k, "|")[3]), Str(Split(k, "|")[4]),
                       Str(Split(k, "|")[5])) = NULL

\* getPatchedEntry for a locator record
Resolve(doc, map, l) ==
  getPatchedEntry(doc, map, l.periodId, l.blockId, l.week, l.day, l.exerciseId)

LocatorKey(l) == entryKey(l.periodId, l.blockId, l.week, l.day, l.exerciseId)

\* the exercises of the document after the step whose locator named no
\* exercise before it
Locators(doc) == IF doc = NULL THEN {} ELSE ExerciseLocators(doc)

Inserted ==
  { l \in Locators(baseData') :
      LocatorKey(l) \notin { LocatorKey(m) : m \in Locators(baseData) } }

(* C2: when nodes are inserted again under identifiers that were patched   *)
(* and then removed, the entry resolved at the locator shows the values of *)
(* the base node only: every step that makes a locator resolvable leaves   *)
(* it resolving to what it resolves to under the empty overlay.            *)
C2_NoPatchResurfaces ==
  [][ \A l \in Inserted :
        Resolve(baseData', edits', l) = Resolve(baseData', EmptyObj, l) ]_vars

\* a patch written before the removal shows on the exercise added again
C2_ResurfacedPatch ==
  /\ lastOp = [name |-> "addExercise", result |-> "ok"]
  /\ SelectedEntry(Here) # NULL
  /\ SelectedEntry(Here) # getPatchedEntry(baseData, EmptyObj, sel.periodId, sel.blockId,
                                           sel.week, sel.day, sel.exerciseId)

\* the locator a key of the overlay spells, its components as strings
KeyLocator(k) ==
  LET parts == Split(k, "|")
  IN [periodId |-> Str(parts[1]), blockId |-> Str(parts[2]), week |-> Str(parts[3]),
      day |-> Str(parts[4]), exerciseId |-> Str(parts[5])]

\* one of the five chained lookups of the locator fails in the document
LookupFails(doc, l) ==
  LET period == getPeriod(doc, l.periodId) IN
  \/ period = UNDEF
  \/ LET block == getBlock(period, l.blockId) IN
     \/ block = UNDEF
     \/ LET weekObj == getWeek(block, l.week) IN
        \/ weekObj = UNDEF
        \/ LET dayObj == getDay(weekObj, l.day) IN
           \/ dayObj = UNDEF
           \/ getExercise(dayObj, l.exerciseId) = UNDEF

\* locators to resolve: the selection, the exercises of the document, those
\* the overlay's keys spell (in memory and stored), and some that name nothing
ProbeLocators ==
  {sel} \cup Locators(baseData)
    \cup { KeyLocator(k) : k \in DOMAIN edits \cup DOMAIN StoredEdits }
    \cup { [l EXCEPT !.day = Str("1")] : l \in Locators(baseData) }
    \cup { [l EXCEPT !.blockId = NULL] : l \in Locators(baseData) }
    \cup { [l EXCEPT !.exerciseId = Str("nope")] : l \in Locators(baseData) }

FullPatch ==
  [ work |-> Str("1x1"), videos |-> Arr(<<"https://youtu.be/probe">>),
    lifterComment |-> Str("l"), coachComment |-> Str("c"),
    updatedAt |-> Str(IsoTimes[1]) ]

\* overlays to resolve under: none, the session's, and ones that patch the
\* locator with every field, with an empty patch, with fields of other types
ProbeOverlays(l) ==
  { EmptyObj, edits,
    LocatorKey(l) :> FullPatch,
    LocatorKey(l) :> EmptyObj,
    LocatorKey(l) :> [work |-> NULL, videos |-> Str("x"), updatedAt |-> Num(0)] }

(* C3: getPatchedEntry returns null exactly when one of the five chained   *)
(* lookups (period, block, week, day, exercise) fails in the document,     *)
(* whatever the overlay holds; when all five succeed it returns an entry.  *)
C3_NotFoundIffLookupFails ==
  baseData # NULL =>
    \A l \in ProbeLocators : \A o \in ProbeOverlays(l) :
      (Resolve(baseData, o, l) = NULL) <=> LookupFails(baseData, l)

\* the overlay holds a patch for a locator that names no exercise, and the
\* selected exercise resolves
C3_PatchedButNotFound ==
  /\ baseData # NULL
  /\ \E k \in DOMAIN edits : LookupFails(baseData, KeyLocator(k))
  /\ ~LookupFails(baseData, sel)
  /\ SelectedEntry(Here) # NULL

\* the patch the overlay holds for the selection, or the empty object
SelectedPatch(s) == IF Has(s.edits, SelectedKey(s)) THEN s.edits[SelectedKey(s)] ELSE EmptyObj

\* partial patches to write: each field alone, two together, none, and one
\* that names updatedAt itself
ProbePartials ==
  { [work |-> Str("4x4")],
    [videos |-> Arr(<<"https://youtu.be/probe">>)],
    [videos |-> Arr(<<>>)],
    [lifterComment |-> Str("probe")],
    [coachComment |-> Str("")],
    [lifterComment |-> Str(""), coachComment |-> Str("probe")],
    [work |-> Str(""), updatedAt |-> Str("1999")],
    EmptyObj }

(* C4: after saveEntryPatch(partialPatch) the patch at the selected key    *)
(* has exactly the fields of the previous patch, of partialPatch and       *)
(* updatedAt; a field of partialPatch other than updatedAt has the value   *)
(* given, any other field the value of the previous patch, and updatedAt   *)
(* is the clock's time at the write; the stored overlay holds that patch.  *)
C4_UpsertMergesFields ==
  \A pp \in ProbePartials :
    LET k == SelectedKey(Here)
        prev == SelectedPatch(Here)
        t == saveEntryPatch(Here, pp)
        next == t.edits[k]
    IN /\ Has(t.edits, k)
       /\ DOMAIN next = DOMAIN prev \cup DOMAIN pp \cup {"updatedAt"}
       /\ \A f \in DOMAIN pp \ {"updatedAt"} : next[f] = pp[f]
       /\ \A f \in DOMAIN prev \ (DOMAIN pp \cup {"updatedAt"}) : next[f] = prev[f]
       /\ next.updatedAt = Str(IsoTimes[clock])
       /\ t.result = "ok" => Get(loadEdits(t.lsEdits), k) = next

\* Save has written the comments over a patch that already held a work
\* text and an older time stamp
C4_SavedOverEarlierPatch ==
  /\ lastOp = [name |-> "save", result |-> "ok"]
  /\ Has(SelectedPatch(Here), "work")
  /\ Has(SelectedPatch(Here), "lifterComment")
  /\ SelectedPatch(Here).updatedAt = Str(IsoTimes[2])
  /\ clock = 2

OverlayFields == {"work", "videos", "lifterComment", "coachComment"}

(* C5: for a selection that resolves, after saveEntryPatch of a patch that *)
(* sets one overlayable field, getPatchedEntry returns the given value for *)
(* that field and, for work, videos, lifterComment and coachComment        *)
(* otherwise, the value it returned before.                                *)
C5_ResolveShowsOnlyThePatchedField ==
  (IF baseData = NULL THEN FALSE ELSE SelectedEntry(Here) # NULL) =>
    \A pp \in { q \in ProbePartials : Cardinality(DOMAIN q) = 1 } :
      LET before == SelectedEntry(Here)
          after == SelectedEntry(saveEntryPatch(Here, pp))
      IN /\ after # NULL
         /\ \A f \in DOMAIN pp : after[f] = pp[f]
         /\ \A g \in OverlayFields \ DOMAIN pp : after[g] = before[g]

\* a link was added to the squat of the loaded document: its videos show
\* the link, its work is still the base text
C5_VideoPatchedWorkKept ==
  /\ lastOp = [name |-> "addVideo", result |-> "ok"]
  /\ SelectedEntry(Here) # NULL
  /\ DOMAIN SelectedPatch(Here) = {"videos", "updatedAt"}
  /\ SelectedEntry(Here).videos = Arr(<<BaseVideo, "https://youtu.be/abc123">>)
  /\ SelectedEntry(Here).work = Str("5x5")

(* C6: the document mergeBaseWithEdits returns shares no mutable state     *)
(* with its inputs: a caller that changes the returned document in place   *)
(* changes neither the overlay nor the base document.                      *)
C6_MergeSharesNothing ==
  [][ MutateMerged => (edits' = edits /\ baseData' = baseData) ]_vars

\* popping a video of the merged document took it out of the overlay, which
\* now differs from its stored copy
C6_OverlayChangedThroughMerged ==
  /\ lastOp.name = "mutateMerged"
  /\ edits # StoredEdits

(* C7: the overlay edit handlers (add video link, remove video, save       *)
(* comments, edit work text, reset local edits) leave the in-memory base   *)
(* document as it was.                                                     *)
C7_EditsLeaveBaseAlone ==
  [][ (AddVideo \/ RemoveVideo \/ Save \/ EditWork \/ ResetLocal)
        => baseData' = baseData ]_vars

\* after Remove on the squat's base video, the node of the in-memory
\* document has lost it
C7_BaseVideoSpliced ==
  /\ lastOp = [name |-> "removeVideo", result |-> "ok"]
  /\ baseData # NULL
  /\ baseData # fetchBaseData(FetchedDoc)
  /\ lsBase = NULL

(* C8: when the localStorage write of an overlay upsert (saveEdits) or of  *)
(* a structure change (persistBaseData) fails, the handler leaves the      *)
(* in-memory overlay and the in-memory base document as they were.         *)
C8_FailedWriteChangesNothing ==
  [][ ( /\ EditWork \/ AddBlock
        /\ full
        /\ lastOp'.result = "threw" )
      => (edits' = edits /\ baseData' = baseData) ]_vars

\* Add block threw on the write and the in-memory document holds a block
\* the stored documents do not
C8_UnsavedBlockInMemory ==
  /\ lastOp = [name |-> "addBlock", result |-> "threw"]
  /\ full
  /\ baseData # fetchBaseData(FetchedDoc)
  /\ \E p \in Locators(baseData) : TRUE
  /\ Len(baseData.periods[1].blocks) = 2

\* a step of one of the handlers that read or change the document
CoreOperation ==
  \/ HashChange
  \/ AddVideo \/ RemoveVideo \/ Save \/ EditWork \/ ResetLocal \/ Export \/ Import
  \/ AddPeriod \/ AddBlock \/ AddWeek \/ AddDay \/ AddExercise
  \/ RemoveExercise \/ RemoveDay \/ RemoveWeek \/ RemoveBlock \/ RemovePeriod

(* C9: no core operation (route handling, overlay edit, structure change)  *)
(* runs while the base document is not loaded: not before the one load has *)
(* completed, and not after it has failed.                                 *)
C9_NoCoreOperationWithoutBase ==
  [][ CoreOperation => (pc = "ready" /\ baseData # NULL) ]_vars

\* after the failed load the hashchange handler has run on the null
\* document: it set the selection and then threw
C9_RouteHandledAfterFailedLoad ==
  /\ pc = "failed"
  /\ baseData = NULL
  /\ lastOp = [name |-> "hashchange", result |-> "threw"]
  /\ sel # NoSel

\* the locators of the exercises of the day the selection addresses
UnderSelectedDay ==
  { l \in Locators(baseData) :
      /\ StrictEq(l.periodId, sel.periodId)
      /\ JSString(l.blockId) = JSString(sel.blockId)
      /\ StrictEq(JSNumber(l.week), JSNumber(sel.week))
      /\ StrictEq(JSNumber(l.day), JSNumber(sel.day)) }

\* the locators that name no exercise before the step and one after it
Reappeared ==
  IF baseData = NULL \/ baseData' = baseData THEN {}
  ELSE { l \in Locators(baseData') : Resolve(baseData, edits, l) = NULL }

SquatLocator ==
  [periodId |-> Str("serie-1-2026"), blockId |-> Num(1), week |-> Num(1), day |-> Num(1),
   exerciseId |-> Str("squat")]

SelectedWeek ==
  LET week(doc, at) == doc.periods[at.p].blocks[at.b].weeks[at.w]
      both(at) == [before |-> week(baseData, at), after |-> week(baseData', at)]
  IN both(ExercisePath(baseData, sel))

(* C11: when Remove day removes the only day of its week, every day the    *)
(* week has when the handler is done (the Day 1 ensureSelected created)    *)
(* has no exercises.                                                       *)
C11_FallbackDayEmpty ==
  [][ ( /\ lastOp' = [name |-> "removeDay", result |-> "ok"]
        /\ RemoveDay
        /\ Len(SelectedWeek.before.days) = 1 )
      => \A i \in 1..Len(SelectedWeek.after.days) :
           SelectedWeek.after.days[i].exercises = <<>> ]_vars

\* Remove day emptied the week of the loaded document: the week has Day 1
\* again, and Day 1 holds the placeholder exercise
C11_FallbackDayHasPlaceholder ==
  /\ lastOp = [name |-> "removeDay", result |-> "ok"]
  /\ baseData.periods[1].blocks[1].weeks[1].days =
       << [PlaceholderDay EXCEPT !.exercises = <<PlaceholderExercise>>] >>
  /\ sel.exerciseId = PlaceholderExercise.id

\* names and numbers to offer to the add forms in every state
ProbeNames ==
  { "Serie 1 2026", " serie 1 2026", "SERIE-1 2026", "Period 1", "Off Season",
    "Squat", "squat", "'Squat'", "Exercise 1", "Bench" }

ProbeNumbers == {"1", "01", "2", "3"}

\* the selection's nodes down to the given level are in the document
SelectedDown(level) ==
  LET down(at) == \A i \in 1..level : <<at.p, at.b, at.w, at.d>>[i] # 0
  IN down(ExercisePath(baseData, sel))

\* the arrays the add forms insert into, under the selection
SelectedChildren ==
  LET of(at) ==
        [ blocks |-> baseData.periods[at.p].blocks,
          weeks |-> IF at.b = 0 THEN <<>> ELSE baseData.periods[at.p].blocks[at.b].weeks,
          days |-> IF at.w = 0 THEN <<>>
                   ELSE baseData.periods[at.p].blocks[at.b].weeks[at.w].days,
          exercises |-> IF at.d = 0 THEN <<>>
                        ELSE baseData.periods[at.p].blocks[at.b].weeks[at.w].days[at.d]
                               .exercises ]
  IN of(ExercisePath(baseData, sel))

\* the array has a node whose field f is the slug, or is the number
HasSlug(nodes, f, name) == \E i \in 1..Len(nodes) : nodes[i][f] = Str(slugify(name))

HasNumber(nodes, f, n) ==
  \E i \in 1..Len(nodes) : JSNumber(nodes[i][f]) = JSNumber(Str(n))

\* the handler returned early and left everything as it was
LeftAlone(t) == t = [Here EXCEPT !.result = "noop"]

(* C12: an add whose identifier is already there at the target level (the  *)
(* slug of the period name among the periods; the block, week or day       *)
(* number, or the slug of the exercise name, among the children of the     *)
(* selected parent) returns early: the base document, the overlay, both    *)
(* stored items, the selection and the view are as they were.              *)
C12_DuplicateAddIsNoop ==
  pc = "ready" =>
    /\ \A name \in ProbeNames :
         /\ HasSlug(baseData.periods, "id", name)
              => LeftAlone(btnAddPeriod(Here, name))
         /\ (SelectedDown(4) /\ HasSlug(SelectedChildren.exercises, "id", name))
              => LeftAlone(btnAddExercise(Here, name, "9x9"))
    /\ \A n \in ProbeNumbers :
         /\ (SelectedDown(1) /\ HasNumber(SelectedChildren.blocks, "id", n))
              => LeftAlone(btnAddBlock(Here, n))
         /\ (SelectedDown(2) /\ HasNumber(SelectedChildren.weeks, "week", n))
              => LeftAlone(btnAddWeek(Here, n))
         /\ (SelectedDown(3) /\ HasNumber(SelectedChildren.days, "day", n))
              => LeftAlone(btnAddDay(Here, n, "again"))

\* Add exercise returned early on a day that has the squat: the typed
\* exercise names all have a letter, so it was "Squat" or "'squat'" again
C12_SecondSquatRefused ==
  /\ lastOp = [name |-> "addExercise", result |-> "noop"]
  /\ SelectedDown(4)
  /\ HasSlug(SelectedChildren.exercises, "id", "Squat")
  /\ \A e \in TypedExercises : Trim(e[1]) # ""

\* names that yield no slug and numbers that are not positive
SluglessNames == {"", "  ", "!!", "' '", "?"}

NonPositiveNumbers == {"0", "", "00"}

\* the identifiers of the nodes of the document
PeriodIds(doc) == { doc.periods[i].id : i \in 1..Len(doc.periods) }

ExerciseIds(doc) == { l.exerciseId : l \in Locators(doc) }

(* C13: an add whose candidate fails validation (a name whose slug is      *)
(* empty, a number that is not positive) leaves the base document as it    *)
(* was, and no period or exercise of the document has the empty id.        *)
C13_InvalidAddRejected ==
  pc = "ready" =>
    /\ \A name \in SluglessNames :
         /\ slugify(name) = ""
         /\ btnAddPeriod(Here, name).baseData = baseData
         /\ SelectedDown(4) => btnAddExercise(Here, name, "").baseData = baseData
    /\ \A n \in NonPositiveNumbers :
         /\ SelectedDown(1) => btnAddBlock(Here, n).baseData = baseData
         /\ SelectedDown(2) => btnAddWeek(Here, n).baseData = baseData
         /\ SelectedDown(3) => btnAddDay(Here, n, "").baseData = baseData
    /\ Str("") \notin PeriodIds(baseData) \cup ExerciseIds(baseData)

\* Add period took the name "!!": the document has a period whose id is
\* the empty string, and the selection fell back to the first period
C13_PeriodWithEmptyId ==
  /\ lastOp = [name |-> "addPeriod", result |-> "ok"]
  /\ Str("") \in PeriodIds(baseData)
  /\ sel.periodId # Str("")

(* C14: Import JSON of a file whose periods property is not an array       *)
(* leaves the in-memory base document, the overlay, the selection and both *)
(* stored items as they were.                                              *)
C14_ShapelessImportRejected ==
  [][ ImportShapeless =>
        /\ baseData' = baseData /\ edits' = edits /\ sel' = sel
        /\ lsBase' = lsBase /\ lsEdits' = lsEdits ]_vars

\* the file {"periods": 5} became the base document, in memory and in the
\* store, and handling the empty route on it threw
C14_RouteThrowsOnImportedNumber ==
  /\ lastOp = [name |-> "hashchange", result |-> "threw"]
  /\ baseData = [scalarPeriods |-> Num(5)]
  /\ lsBase = stringify(baseData)
  /\ sel = NoSel

\* the stored overlay item parses to an object that maps keys to patches
StoresMapping(item) ==
  /\ item # NULL
  /\ Has(item, "json")
  /\ item.json # NULL
  /\ ~IsStr(item.json) /\ ~IsNum(item.json) /\ ~IsArr(item.json)

(* C15: a session that starts on a stored overlay item that is not a       *)
(* mapping (text that is not JSON, the text null) starts with the empty    *)
(* overlay in memory, as a session that starts on no item does.            *)
C15_NonMappingStartsEmpty ==
  (pc = "loading" /\ ~StoresMapping(lsEdits)) => edits = EmptyObj

\* the stored text was null: the overlay in memory is null and main() threw
\* while rendering the overview, the stored item still being the text null
C15_NullOverlayBreaksStart ==
  /\ pc = "ready"
  /\ lastOp = [name |-> "main", result |-> "threw"]
  /\ edits = NULL
  /\ lsEdits = stringify(NULL)
  /\ view = "overview"

\* Import JSON went through to its end
ImportCompleted == (Import \/ ImportFetched \/ ImportShapeless) /\ lastOp'.result = "ok"

\* what resolve answers for every exercise of a document under an overlay
ResolveAll(doc, map) ==
  [ l \in ExerciseLocators(doc) |->
      getPatchedEntry(doc, map, l.periodId, l.blockId, l.week, l.day, l.exerciseId) ]

(* C16: after an import that completed, the overlay in memory and the      *)
(* stored overlay item are empty, the document in memory and the stored    *)
(* base item are the imported document, and every exercise resolves to     *)
(* what the document alone holds.                                          *)
C16_ImportClearsOverlay ==
  [][ ImportCompleted =>
        /\ edits' = EmptyObj
        /\ lsEdits' = NULL
        /\ baseData' \in {ImportedDoc, FetchedDoc}
        /\ lsBase' = stringify(baseData')
        /\ ResolveAll(baseData', edits') = ResolveAll(baseData', EmptyObj) ]_vars

\* the deployed file was imported and the overview is shown: both overlays
\* are empty, both bases are the file, and squat resolves to the file's 5x5
C16_ImportedOverEdits ==
  /\ lastOp = [name |-> "import", result |-> "ok"]
  /\ baseData = FetchedDoc
  /\ lsBase = stringify(FetchedDoc)
  /\ edits = EmptyObj /\ lsEdits = NULL
  /\ view = "overview"
  /\ \A l \in ExerciseLocators(baseData) :
       getPatchedEntry(baseData, edits, l.periodId, l.blockId, l.week, l.day,
                       l.exerciseId).work = Str("5x5")

\* l with the component of one level (1 the period, 5 the exercise) replaced
\* by an id or a number that nothing in the documents of the model carries
Unknown(l, level) ==
  CASE level = 1 -> [l EXCEPT !.periodId = Str("nope")]
    [] level = 2 -> [l EXCEPT !.blockId = Num(9)]
    [] level = 3 -> [l EXCEPT !.week = Num(9)]
    [] level = 4 -> [l EXCEPT !.day = Num(9)]
    [] OTHER     -> [l EXCEPT !.exerciseId = Str("nope")]

RouteOf(l) == makeHash(l.periodId, l.blockId, l.week, l.day, l.exerciseId)

\* handling the route of l with one level unknown, from the present state
HandledUnknown(l, level) == initFromHash(Here, RouteOf(Unknown(l, level)))

(* C17: once the document is loaded, handling the route of a locator that  *)
(* fails to resolve at any one level throws nothing and shows the          *)
(* overview.                                                               *)
C17_UnresolvedRouteShowsOverview ==
  pc = "ready" =>
    \A l \in ExerciseLocators(baseData) : \A level \in 1..5 :
      /\ HandledUnknown(l, level).result = "ok"
      /\ HandledUnknown(l, level).view = "overview"

\* the route of the unknown period nope was handled on the loaded document
\* and threw; the selection names nope and the exercise view stayed up
C17_UnknownPeriodThrew ==
  /\ pc = "ready"
  /\ lastOp = [name |-> "hashchange", result |-> "threw"]
  /\ baseData = FetchedDoc
  /\ sel.periodId = Str("nope")
  /\ view = "exercise"

\* the route that carries the first level components of l (1: the period only)
PrefixRoute(l, level) ==
  "#/p/" \o JSString(l.periodId)
    \o (IF level >= 2 THEN "/b/" \o JSString(l.blockId) ELSE "")
    \o (IF level >= 3 THEN "/w/" \o JSString(l.week) ELSE "")
    \o (IF level >= 4 THEN "/d/" \o JSString(l.day) ELSE "")

\* the components of a selection from level first down to the exercise
Below(selection, first) ==
  SubSeq(<<selection.periodId, selection.blockId, selection.week, selection.day,
           selection.exerciseId>>, first, 5)

\* handling the route of the first level components of l, from the present state
HandledPrefix(l, level) == initFromHash(Here, PrefixRoute(l, level))

(* C18: once the document is loaded, handling a route that carries only    *)
(* the first one to four components of a resolvable locator completes,     *)
(* leaves every component the route did not carry null in the selection    *)
(* and does not show the exercise view.                                    *)
C18_PrefixRouteStaysCoarse ==
  pc = "ready" =>
    \A l \in ExerciseLocators(baseData) : \A level \in 1..4 :
      /\ HandledPrefix(l, level).result = "ok"
      /\ \A i \in 1..(5 - level) : Below(HandledPrefix(l, level).sel, level + 1)[i] = NULL
      /\ HandledPrefix(l, level).view # "exercise"

\* the overview is up on the loaded document, and from here the route
\* #/p/serie-1-2026 selects block 1, week 1, day 1 and squat and shows squat
C18_PeriodRouteShowsSquat ==
  /\ pc = "ready"
  /\ view = "overview"
  /\ baseData = FetchedDoc
  /\ initFromHash(Here, "#/p/serie-1-2026").result = "ok"
  /\ initFromHash(Here, "#/p/serie-1-2026").view = "exercise"
  /\ initFromHash(Here, "#/p/serie-1-2026").sel =
       [periodId |-> Str("serie-1-2026"), blockId |-> Num(1), week |-> Num(1),
        day |-> Num(1), exerciseId |-> Str("squat")]

\* locator identity: slugs equal as strings, block, week and day as numbers
LocatorEq(a, b) ==
  /\ IsStr(a.periodId) /\ a.periodId = b.periodId
  /\ StrictEq(JSNumber(a.blockId), JSNumber(b.blockId))
  /\ StrictEq(JSNumber(a.week), JSNumber(b.week))
  /\ StrictEq(JSNumber(a.day), JSNumber(b.day))
  /\ IsStr(a.exerciseId) /\ a.exerciseId = b.exerciseId

\* handling the route makeHash builds for l, from the present state
HandledLink(l) == initFromHash(Here, RouteOf(l))

\* the handler state in which the exercise view shows the entry of l
ShowsEntryOf(t, l) ==
  /\ t.view = "exercise"
  /\ SelectedEntry(t) =
       getPatchedEntry(baseData, edits, l.periodId, l.blockId, l.week, l.day, l.exerciseId)
  /\ t.shown = renderVideos(t, SelectedEntry(t)).shown

(* C19: once the document is loaded, for every locator that resolves in    *)
(* it, handling the route makeHash builds for the locator completes, sets  *)
(* the selection to a locator equal to it and shows its entry.             *)
C19_LinkOpensItsEntry ==
  pc = "ready" =>
    \A l \in ExerciseLocators(baseData) :
      /\ HandledLink(l).result = "ok"
      /\ LocatorEq(HandledLink(l).sel, l)
      /\ ShowsEntryOf(HandledLink(l), l)

\* a day holds the exercise named ?, whose id is the empty string, ahead of
\* squat; its link selects no exercise and shows the overview
C19_LinkOfEmptyIdShowsOverview ==
  /\ pc = "ready"
  /\ \E l \in ExerciseLocators(baseData) :
       /\ l.exerciseId = Str("")
       /\ HandledLink(l).result = "ok"
       /\ HandledLink(l).view = "overview"
       /\ HandledLink(l).sel.exerciseId = NULL

KeyOf(l) == entryKey(l.periodId, l.blockId, l.week, l.day, l.exerciseId)

C21_KeysAreCollisionFree ==
  pc = "ready" =>
    \A l1, l2 \in ExerciseLocators(baseData) :
      ~LocatorEq(l1, l2) => KeyOf(l1) # KeyOf(l2)

\* on the imported log the work of one exercise was edited; the overlay has
\* the one key a|1|1|1|1|x, and both exercises resolve to the edited work
C21_OnePatchTwoExercises ==
  /\ pc = "ready"
  /\ baseData = PipedDoc
  /\ lastOp = [name |-> "editWork", result |-> "ok"]
  /\ DOMAIN edits = {"a|1|1|1|1|x"}
  /\ \A l \in ExerciseLocators(baseData) :
       getPatchedEntry(baseData, edits, l.periodId, l.blockId, l.week, l.day,
                       l.exerciseId).work = Str("3x5")

\* the typed queries that are not blank, as the handler compares them
Queries == { MapLower(Trim(v)) : v \in SearchInputs } \ {""}

\* the resolved entry of the exercise a locator names
Resolved(l) ==
  getPatchedEntry(baseData, edits, l.periodId, l.blockId, l.week, l.day, l.exerciseId)

\* the searched fields of a resolved entry and the period's id, joined by blanks
FieldsOf(e) ==
  JoinElem(e.periodName) \o " " \o JoinElem(e.periodId) \o " " \o JSString(e.blockId)
    \o " " \o JSString(e.week) \o " " \o JSString(e.day) \o " " \o JoinElem(e.exerciseName)
    \o " " \o JoinElem(e.work) \o " " \o JoinElem(e.lifterComment)
    \o " " \o JoinElem(e.coachComment)

\* q occurs in the fields of the resolved entry of l, whatever the case
Matches(l, q) == Includes(MapLower(FieldsOf(Resolved(l))), MapLower(q))

\* where the loops over the document meet the exercise of an entry
PlaceOf(e) ==
  LET at == ExercisePath(baseData, [periodId |-> e.periodId, blockId |-> e.blockId,
                                    week |-> e.week, day |-> e.day,
                                    exerciseId |-> e.exerciseId])
  IN <<at.p, at.b, at.w, at.d, at.e>>

\* place a comes before place b in the traversal
Earlier(a, b) ==
  \E k \in 1..5 : a[k] < b[k] /\ \A j \in 1..(k - 1) : a[j] = b[j]

(* C22: once the document is loaded, for every query that is not blank the *)
(* results of search are the resolved entries of exactly the exercises     *)
(* whose period name, period id, block id, week, day, exercise name and    *)
(* resolved work and comments, joined by blanks, contain the query         *)
(* whatever the case, each once, in the order of the document.             *)
C22_SearchFindsExactlyTheMatches ==
  pc = "ready" =>
    \A q \in Queries :
      LET results == searchResults(baseData, edits, q) IN
      /\ \A i \in 1..Len(results) :
           \E l \in ExerciseLocators(baseData) : Matches(l, q) /\ results[i] = Resolved(l)
      /\ \A l \in ExerciseLocators(baseData) :
           Matches(l, q) => \E i \in 1..Len(results) : results[i] = Resolved(l)
      /\ \A i, j \in 1..Len(results) :
           i < j => Earlier(PlaceOf(results[i]), PlaceOf(results[j]))

\* the search view is up; bench 3x8 was added next to squat, whose work was
\* edited from 5x5 to 3x5: the query 3x finds both, the query 3x5 finds
\* squat alone, with the edited work, and nonexistent-term finds nothing
C22_SearchSeesEditedWork ==
  /\ pc = "ready"
  /\ view = "search"
  /\ lastOp = [name |-> "search", result |-> "ok"]
  /\ Len(searchResults(baseData, edits, "3x")) = 2
  /\ Len(searchResults(baseData, edits, "3x5")) = 1
  /\ searchResults(baseData, edits, "3x5")[1].exerciseId = Str("squat")
  /\ searchResults(baseData, edits, "3x5")[1].work = Str("3x5")
  /\ searchResults(baseData, edits, "nonexistent-term") = <<>>

\* what Export JSON writes in the present state
Merged == mergeBaseWithEdits(baseData, edits)

\* the resolved entry of l in the merged document, under no overlay
ResolvedInMerged(l) ==
  getPatchedEntry(Merged, EmptyObj, l.periodId, l.blockId, l.week, l.day, l.exerciseId)

\* the exercise node a locator names in a document
NodeAt(doc, l) ==
  LET at == ExercisePath(doc, l)
  IN doc.periods[at.p].blocks[at.b].weeks[at.w].days[at.d].exercises[at.e]

(* C23: once the document is loaded, every exercise of the document        *)
(* resolves in the merged document, under no overlay, to the work, videos, *)
(* comments and time of change it resolves to in the document under the    *)
(* overlay; the merged document has the exercises of the document and no   *)
(* other, and a node no patch is keyed to is the node of the document.     *)
C23_MergeAgreesWithResolve ==
  pc = "ready" =>
    /\ ExerciseLocators(Merged) = ExerciseLocators(baseData)
    /\ \A l \in ExerciseLocators(baseData) :
         /\ ResolvedInMerged(l).work = Resolved(l).work
         /\ ResolvedInMerged(l).videos = Resolved(l).videos
         /\ ResolvedInMerged(l).lifterComment = Resolved(l).lifterComment
         /\ ResolvedInMerged(l).coachComment = Resolved(l).coachComment
         /\ ResolvedInMerged(l).updatedAt = Resolved(l).updatedAt
         /\ ~Has(edits, KeyOf(l)) => NodeAt(Merged, l) = NodeAt(baseData, l)

\* squat was edited to 3x5: the merged document holds 3x5 where the
\* document holds 5x5
C23_MergedHoldsEditedWork ==
  /\ pc = "ready"
  /\ lastOp.name = "export"
  /\ \E l \in ExerciseLocators(baseData) :
       /\ NodeAt(baseData, l).work = Str("5x5")
       /\ NodeAt(Merged, l).work = Str("3x5")
       /\ Resolved(l).work = Str("3x5")

\* what the structure manager's handlers are recorded as
StructuralOps ==
  { "addPeriod", "addBlock", "addWeek", "addDay", "addExercise",
    "removeExercise", "removeDay", "removeWeek", "removeBlock", "removePeriod" }

\* the last handler was one of the structure manager's and ran to its end
MutationCompleted == lastOp.name \in StructuralOps /\ lastOp.result = "ok"

(* C24: when an add or a remove of the structure manager has completed,    *)
(* the store holds the base document that is in memory.                    *)
C24_StoredBaseIsMemoryBase ==
  MutationCompleted => lsBase = stringify(baseData)

\* the only exercise was removed: the day in memory holds the placeholder
\* exercise, the stored document holds the day with no exercise
C24_PlaceholderNotStored ==
  /\ lastOp = [name |-> "removeExercise", result |-> "ok"]
  /\ baseData.periods[1].blocks[1].weeks[1].days[1].exercises = <<PlaceholderExercise>>
  /\ lsBase # NULL
  /\ safeJsonParse(lsBase, NULL).periods[1].blocks[1].weeks[1].days[1].exercises = <<>>

(* C25: when an add or a remove of the structure manager has completed,    *)
(* every component of the selection is set and the selection resolves to   *)
(* an exercise of the document in memory.                                  *)
C25_SelectionResolvesAfterMutation ==
  MutationCompleted =>
    /\ \A f \in {"periodId", "blockId", "week", "day", "exerciseId"} :
         sel[f] \notin {NULL, UNDEF}
    /\ SelectedEntry(Here) \notin {NULL, TypeError}

\* the exercise named ? was added and sorts first in its day: its id is the
\* empty string, and the selection is left without an exercise
C25_NoExerciseSelectedAfterAdd ==
  /\ lastOp = [name |-> "addExercise", result |-> "ok"]
  /\ sel.exerciseId = NULL
  /\ SelectedDown(4)
  /\ SelectedChildren.exercises[1].id = Str("")
  /\ SelectedEntry(Here) = NULL

\* the level (1 the period, 5 the exercise) whose selected node a remove
\* handler removes
RemovedLevel ==
  [ removePeriod |-> 1, removeBlock |-> 2, removeWeek |-> 3, removeDay |-> 4,
    removeExercise |-> 5 ]

\* where the selected node of each level stands among its parent's children
\* (0: the selection names no child at that level)
SelectedPlaces ==
  LET places(at) == <<at.p, at.b, at.w, at.d, at.e>>
  IN places(ExercisePath(baseData, sel))

(* C26: when a remove of the structure manager has completed, the          *)
(* selection at the level of the removed node is the first of the parent's *)
(* remaining children, and at every level below it is the first child of   *)
(* the node selected above.                                                *)
C26_RemovalSelectsFirstChildren ==
  (lastOp.name \in DOMAIN RemovedLevel /\ lastOp.result = "ok") =>
    \A level \in RemovedLevel[lastOp.name]..5 : SelectedPlaces[level] = 1

\* squat was removed from the day it shared with the exercise named ?: the
\* day holds that exercise alone, and no exercise is selected
C26_FirstExerciseNotSelected ==
  /\ lastOp = [name |-> "removeExercise", result |-> "ok"]
  /\ SelectedDown(4)
  /\ Len(SelectedChildren.exercises) = 1
  /\ SelectedChildren.exercises[1].id = Str("")
  /\ sel.exerciseId = NULL

\* no two elements of a sequence have the same key
UniqueBy(nodes, Key(_)) ==
  \A i, j \in 1..Len(nodes) : i # j => Key(nodes[i]) # Key(nodes[j])

PeriodKey(p) == p.id
NumberedKey(b) == JSNumber(b.id)
WeekKey(w) == JSNumber(w.week)
DayKey(d) == JSNumber(d.day)

(* C27: in every state after the load, period ids are unique in the        *)
(* document, block numbers in their period, week numbers in their block,   *)
(* day numbers in their week and exercise ids in their day.                *)
C27_IdsAreUnique ==
  pc = "ready" =>
    /\ UniqueBy(baseData.periods, PeriodKey)
    /\ \A pi \in 1..Len(baseData.periods) :
         LET p == baseData.periods[pi] IN
         /\ UniqueBy(p.blocks, NumberedKey)
         /\ \A bi \in 1..Len(p.blocks) :
              LET b == p.blocks[bi] IN
              /\ UniqueBy(b.weeks, WeekKey)
              /\ \A wi \in 1..Len(b.weeks) :
                   LET w == b.weeks[wi] IN
                   /\ UniqueBy(w.days, DayKey)
                   /\ \A di \in 1..Len(w.days) : UniqueBy(w.days[di].exercises, PeriodKey)

\* Squat was typed for a day that holds squat, and was refused; the
\* document holds an added period or an added day as well
C27_SquatOnceAmongAdded ==
  /\ pc = "ready"
  /\ lastOp = [name |-> "addExercise", result |-> "noop"]
  /\ Len(baseData.periods) + Len(baseData.periods[1].blocks[1].weeks[1].days) >= 3
  /\ Cardinality({ l \in ExerciseLocators(baseData) : l.exerciseId = Str("squat") }) = 1

\* the numbers a sequence of nodes carries in field f go up
Ascending(nodes, f) ==
  \A i, j \in 1..Len(nodes) :
    i < j => /\ IsNum(JSNumber(nodes[i][f])) /\ IsNum(JSNumber(nodes[j][f]))
             /\ JSNumber(nodes[i][f]).num < JSNumber(nodes[j][f]).num

\* no exercise stands after one whose name collates after its own
OrderedByName(nodes) ==
  \A i, j \in 1..Len(nodes) : i < j => ~LocaleBefore(nodes[j].name.str, nodes[i].name.str)

\* the children of the nodes a selection names in a document, level by level
ChildrenOf(doc, sl) ==
  LET of(at) ==
        [ blocks |-> IF at.p = 0 THEN <<>> ELSE doc.periods[at.p].blocks,
          weeks |-> IF at.b = 0 THEN <<>> ELSE doc.periods[at.p].blocks[at.b].weeks,
          days |-> IF at.w = 0 THEN <<>>
                   ELSE doc.periods[at.p].blocks[at.b].weeks[at.w].days,
          exercises |-> IF at.d = 0 THEN <<>>
                        ELSE doc.periods[at.p].blocks[at.b].weeks[at.w].days[at.d].exercises ]
  IN of(ExercisePath(doc, sl))

\* the handler recorded as name ran to its end in this step
Completed(name) == lastOp' = [name |-> name, result |-> "ok"]

(* C28: an add that completed leaves the blocks of the selected period,    *)
(* the weeks of the selected block or the days of the selected week in     *)
(* ascending order of their numbers, the exercises of the selected day in  *)
(* the order of their names, and the periods as they were with the new     *)
(* period after them.                                                      *)
C28_AddKeepsOrder ==
  [][ /\ Completed("addBlock") => Ascending(ChildrenOf(baseData', sel').blocks, "id")
      /\ Completed("addWeek") => Ascending(ChildrenOf(baseData', sel').weeks, "week")
      /\ Completed("addDay") => Ascending(ChildrenOf(baseData', sel').days, "day")
      /\ Completed("addExercise") => OrderedByName(ChildrenOf(baseData', sel').exercises)
      /\ Completed("addPeriod") =>
           /\ Len(baseData'.periods) = Len(baseData.periods) + 1
           /\ SubSeq(baseData'.periods, 1, Len(baseData.periods)) = baseData.periods ]_vars

\* day 1 was added to a week that held day 2 only: it is selected, holds
\* the placeholder exercise and stands before day 2
C28_DayOneAddedBeforeDayTwo ==
  /\ lastOp = [name |-> "addDay", result |-> "ok"]
  /\ sel.day = Num(1)
  /\ SelectedDown(3)
  /\ Len(SelectedChildren.days) = 2
  /\ SelectedChildren.days[1] = [PlaceholderDay EXCEPT !.exercises = <<PlaceholderExercise>>]
  /\ SelectedChildren.days[2].day = Num(2)

\* an overlay without the entry of one key
Without(map, key) == [k \in DOMAIN map \ {key} |-> map[k]]

(* C29: a Remove exercise that completed leaves the overlay in memory and  *)
(* the stored overlay as they were but for the entry of the selected       *)
(* exercise, and leaves every other exercise node of the document as it    *)
(* was; one that did not complete leaves the document, the overlay, the    *)
(* selection and the store as they were.                                   *)
C29_RemoveExerciseFrame ==
  [][ lastOp'.name = "removeExercise" =>
        IF lastOp'.result = "ok"
        THEN /\ edits' = Without(edits, SelectedKey(Here))
             /\ loadEdits(lsEdits') = edits'
             /\ \A l \in ExerciseLocators(baseData) :
                  KeyOf(l) # SelectedKey(Here) =>
                    /\ l \in ExerciseLocators(baseData')
                    /\ NodeAt(baseData', l) = NodeAt(baseData, l)
        ELSE UNCHANGED <<baseData, edits, sel, lsEdits, lsBase, view, shown>> ]_vars

\* an exercise was removed while the work of squat was edited: the patch of
\* squat is still the overlay, in memory and in the store, and squat
\* resolves to the edited work
C29_OtherPatchKept ==
  /\ lastOp = [name |-> "removeExercise", result |-> "ok"]
  /\ Cardinality(DOMAIN edits) = 1
  /\ loadEdits(lsEdits) = edits
  /\ \E l \in ExerciseLocators(baseData) :
       /\ l.exerciseId = Str("squat")
       /\ Has(edits, KeyOf(l))
       /\ Resolved(l).work = Str("3x5")

\* the read of Add local media ended in this step
ReadEnded == media.reading /\ ~media'.reading

\* the key of the entry that was selected when the read started
StartKey ==
  entryKey(media.startedOn.periodId, media.startedOn.blockId, media.startedOn.week,
           media.startedOn.day, media.startedOn.exerciseId)

\* the entry that was selected when the read started is still in the document
StartResolves ==
  LET e == Resolved(media.startedOn) IN e # NULL /\ e # TypeError

(* C30: when the read of Add local media ends and the entry that was       *)
(* selected at the click is still in the document, the handler completes   *)
(* and the file's data URL is the last video of the patch of that entry,   *)
(* every other patch being as it was.                                      *)
C30_MediaGoesToEntryOfClick ==
  [][ (ReadEnded /\ StartResolves) =>
        /\ lastOp'.result = "ok"
        /\ Has(edits', StartKey)
        /\ IsArr(Get(edits'[StartKey], "videos"))
        /\ edits'[StartKey].videos.arr # <<>>
        /\ edits'[StartKey].videos.arr[Len(edits'[StartKey].videos.arr)] = media.url
        /\ \A k \in DOMAIN edits' \ {StartKey} : Has(edits, k) /\ edits'[k] = edits[k] ]_vars

\* the read started on squat and ended when bench was the selection: the
\* picture is in the patch of bench, squat has no patch
C30_PictureOnBench ==
  /\ lastOp = [name |-> "addLocalMedia", result |-> "ok"]
  /\ ~media.reading
  /\ media.startedOn.exerciseId = Str("squat")
  /\ sel.exerciseId = Str("bench")
  /\ DOMAIN edits = {SelectedKey(Here)}
  /\ edits[SelectedKey(Here)].videos = Arr(<<media.url>>)

\* the fields of an entry a patch may override with text
TextFields == {"work", "lifterComment", "coachComment", "updatedAt"}

\* the entry of the document alone, under no overlay
Unpatched(l) ==
  getPatchedEntry(baseData, EmptyObj, l.periodId, l.blockId, l.week, l.day, l.exerciseId)

\* what the overlay holds under the key of a locator
PatchAt(l) == Get(edits, entryKey(l.periodId, l.blockId, l.week, l.day, l.exerciseId))

(* C31: once the document is loaded, every exercise resolves under the     *)
(* overlay to an entry that has, for work, lifterComment, coachComment and *)
(* updatedAt, the patch's value where the patch has the field as a string  *)
(* and the document's value otherwise; for videos, the patch's sequence    *)
(* and nothing else where the patch has videos as a sequence and the       *)
(* document's otherwise; and for every other field the document's value.   *)
C31_PatchOverridesFieldByField ==
  (pc = "ready" /\ baseData # NULL) =>
    \A l \in ExerciseLocators(baseData) :
      LET base == Unpatched(l)
          got == Resolved(l)
          patch == PatchAt(l)
      IN /\ DOMAIN got = DOMAIN base
         /\ \A f \in TextFields :
              got[f] = IF IsStr(Get(patch, f)) THEN patch[f] ELSE base[f]
         /\ got.videos = IF IsArr(Get(patch, "videos")) THEN patch.videos ELSE base.videos
         /\ \A g \in DOMAIN base \ (TextFields \cup {"videos", "videosOf"}) : got[g] = base[g]

\* the stored patch of the squat had a number for work and one link for
\* videos: the squat resolves to the work of the document and to that link
\* alone, the video of the document not being among its videos
C31_NumberIgnoredLinkReplaces ==
  /\ pc = "ready" /\ baseData # NULL
  /\ \E l \in ExerciseLocators(baseData) :
       /\ l.exerciseId = Str("squat")
       /\ PatchAt(l) = [work |-> Num(5), videos |-> Arr(<<"https://youtu.be/new">>)]
       /\ Unpatched(l).videos = Arr(<<BaseVideo>>)
       /\ Resolved(l).videos = Arr(<<"https://youtu.be/new">>)
       /\ Resolved(l).work = Unpatched(l).work

====
